---- MODULE Spec2Model ----
(***************************************************************************)
(* State-machine model of the BookedSolid voice-agent bridge:              *)
(*   - the per-connection session of apps/server/src/index.ts              *)
(*     (wss.on("connection") closure: stream start/stop, tool dispatch,    *)
(*     booking-claim correction, post-call SMS),                           *)
(*   - the booking tools of services/booking/bookingTools                  *)
(*     (createAppointment and the other four operations),                  *)
(*   - the process-wide idempotency cache of GoogleCalendarAdapter.        *)
(*                                                                         *)
(* Node runs one macrotask (a websocket message, a timer, an I/O           *)
(* completion) at a time and drains the promise continuations it made      *)
(* ready before the next one.  Each handler is therefore one action up to  *)
(* its first await on I/O; the continuations of a settled promise are      *)
(* queued in `microtasks` and every macrotask action waits for that queue  *)
(* to be empty.                                                            *)
(*                                                                         *)
(* Time is counted in minutes: the two time constants of the code          *)
(* (2 * 60 * 1000 ms and 5 * 60 * 1000 ms) are 2 and 5.                    *)
(***************************************************************************)
EXTENDS Integers, Sequences, FiniteSets, TLC

\* ------------------------------------------------------------------ bounds

\* Date.now() runs from 0 to MaxClock minutes.
MaxClock == 6
\* calendar.events.insert is called at most MaxInserts times in a behaviour.
MaxInserts == 2
\* Ghost counters saturate at MaxCount.
MaxCount == 2
\* At most MaxSmsTasks runs of sendPostCallSmsSummaries of one connection await
\* sendSms at the same time.
MaxSmsTasks == 2
\* At most MaxFrames media frames arrive from the transport on one connection,
\* and at most MaxFrames audio deltas from the AI.
MaxFrames == 3
\* Where the retries of one gateway call are counted, calendar.events.insert
\* is called at most MaxRetryInserts times in a behaviour.
MaxRetryInserts == 5
\* Where two sessions ask for the same appointment, calendar.events.insert is
\* called at most MaxSessionInserts times in a behaviour.
MaxSessionInserts == 3

\* A findAvailableSlots window lies within MaxDays local days and there are
\* at most MaxBusy busy intervals in it.
MaxDays == 2
MaxBusy == 2

\* The coach scheduler is followed for MaxCoachDays days and places at most
\* MaxCoachCalls calls.
MaxCoachDays == 2
MaxCoachCalls == 2

\* Each spanish_coach counter of a call is followed up to MaxMetric.
\* the largest counter value for which computeScore is evaluated directly
MaxScoreCounter == 5
MaxMetric == 2

\* ------------------------------------------------------- program constants

\* index.ts: const appointmentDedupeWindowMs = 2 * 60 * 1000 (minutes here).
appointmentDedupeWindowMs == 2
\* GoogleCalendarAdapter.ts: const IDEMPOTENCY_TTL_MS = 5 * 60 * 1000.
IDEMPOTENCY_TTL_MS == 5
\* GoogleCalendarAdapter.ts: RATE_LIMIT_RETRY_DELAYS_MS = [500, 1500, 3000]:
\* the number of delays, i.e. of retries after the first attempt.
RATE_LIMIT_RETRY_DELAYS_MS_length == 3
\* coachScheduler.ts
MIN_HOURS_BETWEEN_CALLS == 20
MATCH_WINDOW_MINUTES == 1

\* --------------------------------------------------------------- value sets

NULL == "null"
Conns == {"w1", "w2"}
ToolCallIds == {"t1", "t2", "t3"}
CallSids == {"CA1", "CA2"}
StreamSids == {"MZ1", "MZ2"}
ConversationIds == {"conv1"}
UNKNOWN_SESSION == "unknown-session"

\* Raw ISO strings a tool call can carry as startISO/endISO.  "rA" and "rA2"
\* are two spellings of the same instant; "bad" does not parse
\* (new Date("bad") is an Invalid Date).
RawISO == {"rA", "rA2", "bad"}
INVALID_DATE == "Invalid Date"

ToolNames ==
  {"booking_check_availability", "booking_create_appointment", "find_event",
   "update_event", "cancel_event", "other_tool"}

\* The shape of toolCall.arguments: a string JSON.parse rejects, the JSON text
\* "null", an object that lacks the fields a tool requires, a complete object.
ArgShapes == {"unparsable", "null", "incomplete", "valid"}

\* What one calendar.events.insert call can answer.
\* "ok": an event with an id; "noid": an event without one; "rate": HTTP 429;
\* "rate403": HTTP 403 with reason rateLimitExceeded; "forbidden": HTTP 403
\* with another reason; "auth": invalid_grant; "fail": HTTP 500.
InsertOutcomes == {"ok", "noid", "rate", "rate403", "forbidden", "auth", "fail"}
\* What a booking operation other than create can end with.
OpOutcomes == {"ok", "empty", "booking_not_configured", "booking_error"}

Modes == {"receptionist", "spanish_coach"}

\* msg.media.payload of a media frame and openaiMsg.delta of an audio delta:
\* opaque base64 strings
AudioPayloads == {"p1", "p2"}

\* ------------------------------------------------------------------- state

VARIABLES
  \* --- the process
  processEnv,             \* process.env / env, fixed at start-up
  scope,                  \* what the peers send in this behaviour (fixed)
  clock,                  \* Date.now(), minutes
  idempotencyCache,       \* GoogleCalendarAdapter.ts idempotencyCache
  inflightPromises,       \* GoogleCalendarAdapter.ts inflightPromises
  sentPostCallSummaries,  \* index.ts sentPostCallSummaries
  \* --- the services the bridge and the HTTP routes call
  finder,                 \* slotFinder.ts: one findAvailableSlots call, its
                          \* input and the slots it returned
  coach,                  \* coachDb.ts users and call_logs, coachScheduler.ts
                          \* isRunning and the processDueUsers run in progress
  \* --- one media-stream connection (the closure of wss.on("connection"))
  streamSid, callSid, conversationId, mode, pendingGreeting,
  userId,                 \* customParameters.userId as a number, 0 for null
  metrics, optedOut,      \* the spanish_coach counters and the opt-out flag
  openaiWs,               \* "null" or the readyState of the AI socket
  twilioWs,               \* the readyState of the media-stream socket
  assistantBuffer,
  processedToolCalls, inflightToolCalls, recentAppointments,
  lastBookingCreateResult, lastBookingCreateCallId, bookingCorrectionSent,
  callSummaryState,
  \* --- suspended async functions
  toolTask,               \* handleToolCall awaiting the booking operation
  smsTask,                \* sendPostCallSmsSummaries awaiting sendSms
  microtasks,             \* continuations made ready by a settled promise
  \* --- observation (history) variables
  insertLog,              \* every calendar.events.insert call
  dispatchCount,          \* booking-operation invocations per tool-call id
  aiLog,                  \* what was sent on the AI socket, per kind
  obs                     \* per-connection observations of the bridge: counters
                          \* of what it did, the instructions its AI socket
                          \* was created with, the audio that arrived and the
                          \* audio it sent on

svcVars  == <<finder, coach>>
procVars == <<processEnv, scope, svcVars, clock, idempotencyCache, inflightPromises,
              sentPostCallSummaries>>
coachVars == <<userId, metrics, optedOut>>
connVars == <<coachVars, streamSid, callSid, conversationId, mode, pendingGreeting, openaiWs,
              twilioWs,
              assistantBuffer, processedToolCalls, inflightToolCalls,
              recentAppointments, lastBookingCreateResult, lastBookingCreateCallId,
              bookingCorrectionSent, callSummaryState>>
taskVars == <<toolTask, smsTask, microtasks>>
obsVars  == <<insertLog, dispatchCount, aiLog, obs>>
vars     == <<procVars, connVars, taskVars, obsVars>>

\* ----------------------------------------------------------------- helpers

Inc(n) == IF n < MaxCount THEN n + 1 ELSE n

\* a ?? b
Coalesce(a, b) == IF a # NULL THEN a ELSE b

\* new Date(raw).toISOString(): the canonical spelling of the instant; an
\* Invalid Date makes toISOString throw a RangeError.
ToISOString(raw) ==
  CASE raw = "rA"  -> "A"
    [] raw = "rA2" -> "A"
    [] OTHER       -> INVALID_DATE

IdempotencySources == CallSids \cup StreamSids \cup ConversationIds \cup {UNKNOWN_SESSION}
IdempotencyKeys == IdempotencySources \X {"A"}
DedupeKeys == (CallSids \cup StreamSids \cup {UNKNOWN_SESSION}) \X RawISO

\* tool results (BookingCreateAppointmentOutput and the others, and the
\* {error: {code, message}} object); eventId 0 stands for undefined
NoResult == [kind |-> "none", created |-> FALSE, dryRun |-> FALSE, eventId |-> 0,
             startISO |-> NULL, code |-> NULL]
CreateOutput(created, dryRun, eventId, iso) ==
  [kind |-> "create", created |-> created, dryRun |-> dryRun, eventId |-> eventId,
   startISO |-> iso, code |-> NULL]
ErrorOutput(code) == [NoResult EXCEPT !.kind = "error", !.code = code]
OtherOutput(kind, ok, eventId, iso) ==
  [kind |-> kind, created |-> ok, dryRun |-> FALSE, eventId |-> eventId,
   startISO |-> iso, code |-> NULL]

NoEntry == [timestamp |-> 0, result |-> NoResult]
NoCache == [status |-> "none", eventId |-> 0, createdAt |-> 0]
NoPromise == <<>>

NoTask == [stage |-> "none", name |-> NULL, iso |-> NULL, now |-> 0,
           dedupeKey |-> <<>>, key |-> <<>>, attempt |-> 0, logIx |-> 0,
           awaiters |-> <<>>]

NoSummary ==
  [callSid |-> NULL, callerPhone |-> NULL, callerName |-> NULL,
   primaryReason |-> NULL, appointmentStartISO |-> NULL,
   appointmentBooked |-> "null", appointmentRequested |-> FALSE,
   followUpNote |-> NULL]

\* the booking attempt begun last on a connection and how it ended
NoAttempt == [id |-> NULL, outcome |-> "none"]

\* no SMS has been handed to sendSms; no body was composed
NoBody == [kind |-> "none"]
NoSms == [to |-> NULL, body |-> NoBody]

\* no Booking Operation has rejected on the connection
NoError == [kind |-> "none", code |-> NULL]

NoAiLog ==
  [greeting |-> 0, filler |-> 0, toolOutput |-> 0, failure |-> 0, commit |-> 0,
   unopened |-> 0]

\* every outcome stored as booked
Bool3_true(b) == "true"

\* result.created as the value stored in callSummaryState.appointmentBooked
\* (boolean | null in the code)
Bool3(b) == IF b THEN "true" ELSE "false"

\* -------------------------------------------------------------------- Init

\* The state after the server has started and the media-stream connections are
\* accepted: every closure variable has the initial value index.ts gives it
\* (lines 242-283), the module-level maps and sets are empty.
InitBridge(envs, sc) ==
  /\ processEnv \in envs
  /\ scope = sc
  /\ clock = 0
  /\ idempotencyCache = [k \in IdempotencyKeys |-> NoCache]
  /\ inflightPromises = [k \in IdempotencyKeys |-> NoPromise]
  /\ sentPostCallSummaries = {}
  /\ streamSid = [c \in Conns |-> NULL]
  /\ callSid = [c \in Conns |-> NULL]
  /\ conversationId = [c \in Conns |-> NULL]
  /\ userId = [c \in Conns |-> 0]
  /\ metrics = [c \in Conns |-> [simplifications |-> 0, repeats |-> 0,
                                  spanishAnswers |-> 0, spanishWithoutEnglish |-> 0]]
  /\ optedOut = [c \in Conns |-> FALSE]
  /\ mode = [c \in Conns |-> "receptionist"]
  /\ pendingGreeting = [c \in Conns |-> FALSE]
  /\ openaiWs = [c \in Conns |-> NULL]
  /\ twilioWs = [c \in Conns |-> "OPEN"]
  /\ assistantBuffer = [c \in Conns |-> "empty"]
  /\ processedToolCalls = [c \in Conns |-> [t \in ToolCallIds |-> NoResult]]
  /\ inflightToolCalls = [c \in Conns |-> {}]
  /\ recentAppointments = [c \in Conns |-> [k \in DedupeKeys |-> NoEntry]]
  /\ lastBookingCreateResult = [c \in Conns |-> NoResult]
  /\ lastBookingCreateCallId = [c \in Conns |-> NULL]
  /\ bookingCorrectionSent = [c \in Conns |-> FALSE]
  /\ callSummaryState = [c \in Conns |-> NoSummary]
  /\ toolTask = [c \in Conns |-> [t \in ToolCallIds |-> NoTask]]
  /\ smsTask = [c \in Conns |-> <<>>]
  /\ microtasks = <<>>
  /\ insertLog = <<>>
  /\ dispatchCount = [c \in Conns |-> [t \in ToolCallIds |-> 0]]
  /\ aiLog = [c \in Conns |-> NoAiLog]
  /\ obs = [aiConnections |-> [c \in Conns |-> 0],
            lastToolOutput |-> [c \in Conns |-> <<>>],
            flightReplies |-> [c \in Conns |-> [id \in ToolCallIds |-> 0]],
            duplicates |-> [c \in Conns |-> [id \in ToolCallIds |-> 0]],
            surfaced |-> [c \in Conns |-> NoError],
            lastSms |-> [c \in Conns |-> NoSms],
            coached |-> [c \in Conns |-> FALSE],
            quietEvents |-> [c \in Conns |-> 0],
            smsAttempts |-> [s \in CallSids |-> 0],
            correctionsSinceAttempt |-> [c \in Conns |-> 0],
            correctionsSinceReset |-> [c \in Conns |-> 0],
            instructionsSinceResult |-> [c \in Conns |-> 0],
            claimsSinceResult |-> [c \in Conns |-> 0],
            lastAttempt |-> [c \in Conns |-> NoAttempt],
            overdue |-> FALSE,
            instructions |-> [c \in Conns |-> NULL],
            finalized |-> [c \in Conns |-> FALSE],
            frames |-> [c \in Conns |-> <<>>],
            aiAudio |-> [c \in Conns |-> <<>>],
            deltas |-> [c \in Conns |-> <<>>],
            twilioAudio |-> [c \in Conns |-> <<>>],
            coachLog |-> [c \in Conns |-> <<>>],
            startsWhileConnecting |-> [c \in Conns |-> 0]]

\* No service has been called.
NoFinderCall == [called |-> FALSE]

\* The coach scheduler is not started and nobody has signed up.
NoCoach == [started |-> FALSE]

InitWith(envs, sc) ==
  /\ InitBridge(envs, sc)
  /\ finder = NoFinderCall
  /\ coach = NoCoach

\* No promise continuation is waiting to run: the event loop takes the next
\* macrotask.
Idle == microtasks = <<>>

\* ------------------------------------------------- sending on the AI socket

\* `if (!openaiWs || openaiWs.readyState !== WebSocket.OPEN) return;` guards
\* every send (sendToolOutput, sendCalendarFiller, sendBookingFailureResponse,
\* sendGreeting, the commit at stop).
IsOpen(ws) == ws = "OPEN"

\* aiLog after openaiWs.send(...) of a message of kind `kind` on a socket in
\* state ws; a specification counts the kinds its claims are about
\* (scope.logged).  A send on a socket that is not open reaches no one and is
\* counted as unopened.
Sent(log, ws, kind) ==
  IF IsOpen(ws)
  THEN IF kind \in scope.logged THEN [log EXCEPT ![kind] = Inc(@)] ELSE log
  ELSE IF "unopened" \in scope.logged THEN [log EXCEPT !.unopened = Inc(@)] ELSE log

\* ------------------------------------------- the session seen by a handler

\* The closure variables one handler run reads and writes, as a record, so that
\* the helpers below can be composed in the order the code calls them.
Session(c) ==
  [openaiWs |-> openaiWs[c],
   processedToolCalls |-> processedToolCalls[c],
   inflightToolCalls |-> inflightToolCalls[c],
   recentAppointments |-> recentAppointments[c],
   lastBookingCreateResult |-> lastBookingCreateResult[c],
   lastBookingCreateCallId |-> lastBookingCreateCallId[c],
   bookingCorrectionSent |-> bookingCorrectionSent[c],
   callSummaryState |-> callSummaryState[c],
   aiLog |-> aiLog[c],
   lastToolOutput |-> obs.lastToolOutput[c],
   flightReplies |-> obs.flightReplies[c],
   duplicates |-> obs.duplicates[c],
   surfaced |-> obs.surfaced[c],
   quietEvents |-> obs.quietEvents[c],
   correctionsSinceAttempt |-> obs.correctionsSinceAttempt[c],
   correctionsSinceReset |-> obs.correctionsSinceReset[c],
   instructionsSinceResult |-> obs.instructionsSinceResult[c],
   claimsSinceResult |-> obs.claimsSinceResult[c],
   lastAttempt |-> obs.lastAttempt[c]]

\* Writes a handler's session record back to the variables.
Commit(c, s) ==
  /\ processedToolCalls' = [processedToolCalls EXCEPT ![c] = s.processedToolCalls]
  /\ inflightToolCalls' = [inflightToolCalls EXCEPT ![c] = s.inflightToolCalls]
  /\ recentAppointments' = [recentAppointments EXCEPT ![c] = s.recentAppointments]
  /\ lastBookingCreateResult' = [lastBookingCreateResult EXCEPT ![c] = s.lastBookingCreateResult]
  /\ lastBookingCreateCallId' = [lastBookingCreateCallId EXCEPT ![c] = s.lastBookingCreateCallId]
  /\ bookingCorrectionSent' = [bookingCorrectionSent EXCEPT ![c] = s.bookingCorrectionSent]
  /\ callSummaryState' = [callSummaryState EXCEPT ![c] = s.callSummaryState]
  /\ aiLog' = [aiLog EXCEPT ![c] = s.aiLog]
  /\ obs' = IF "claims" \in scope.logged
            THEN [obs EXCEPT !.lastToolOutput[c] = s.lastToolOutput,
                             !.flightReplies[c] = s.flightReplies,
                             !.duplicates[c] = s.duplicates,
                             !.surfaced[c] = s.surfaced,
                             !.quietEvents[c] = s.quietEvents,
                             !.correctionsSinceAttempt[c] = s.correctionsSinceAttempt,
                             !.correctionsSinceReset[c] = s.correctionsSinceReset,
                             !.instructionsSinceResult[c] = s.instructionsSinceResult,
                             !.claimsSinceResult[c] = s.claimsSinceResult,
                             !.lastAttempt[c] = s.lastAttempt]
            ELSE [obs EXCEPT !.lastToolOutput[c] = s.lastToolOutput,
                             !.flightReplies[c] = s.flightReplies,
                             !.duplicates[c] = s.duplicates,
                             !.surfaced[c] = s.surfaced,
                             !.quietEvents[c] = s.quietEvents]

\* sendToolOutput without its readyState guard
sendToolOutput_unguarded(s, toolCallId, output) ==
  [s EXCEPT !.aiLog = Sent(@, s.openaiWs, "toolOutput"),
            !.lastToolOutput =
              IF "toolOutput" \in scope.logged THEN <<toolCallId, output>> ELSE @,
            !.flightReplies[toolCallId] =
              IF "replies" \in scope.logged THEN Inc(@) ELSE @]
\* index.ts sendToolOutput
sendToolOutput(s, toolCallId, output) ==
  IF ~IsOpen(s.openaiWs) THEN s
  ELSE [s EXCEPT !.aiLog = Sent(@, s.openaiWs, "toolOutput"),
                 !.lastToolOutput =
                    IF "toolOutput" \in scope.logged THEN <<toolCallId, output>> ELSE @,
                 !.flightReplies[toolCallId] =
                    IF "replies" \in scope.logged THEN Inc(@) ELSE @]

\* sendToolOutputCached without `inflightToolCalls.delete(toolCallId)`
sendToolOutputCached_keepsMarker(s, toolCallId, output) ==
  sendToolOutput([s EXCEPT !.processedToolCalls[toolCallId] = output],
                 toolCallId, output)
\* index.ts sendToolOutputCached
sendToolOutputCached(s, toolCallId, output) ==
  sendToolOutput([s EXCEPT !.processedToolCalls[toolCallId] = output,
                           !.inflightToolCalls = @ \ {toolCallId}],
                 toolCallId, output)

\* sendCalendarFiller without its readyState guard
sendCalendarFiller_unguarded(s) == [s EXCEPT !.aiLog = Sent(@, s.openaiWs, "filler")]
\* index.ts sendCalendarFiller
sendCalendarFiller(s) ==
  IF ~IsOpen(s.openaiWs) THEN s
  ELSE [s EXCEPT !.aiLog = Sent(@, s.openaiWs, "filler")]

\* index.ts sendBookingFailureResponse: one response.create telling the caller
\* the booking is not made
sendBookingFailureResponse(s) ==
  IF ~IsOpen(s.openaiWs) THEN s
  ELSE [s EXCEPT !.aiLog = Sent(@, s.openaiWs, "failure"),
                 !.instructionsSinceResult = Inc(@)]

\* no notice with the tool result
sendBookingFailureNotice_never(s, result) == s

\* index.ts sendBookingFailureNotice
sendBookingFailureNotice(s, result) ==
  IF result.created THEN s ELSE sendBookingFailureResponse(s)

\* the correction without its latch
sendBookingCorrection_unlatched(s) ==
  sendBookingFailureResponse(
    [s EXCEPT !.correctionsSinceAttempt = IF IsOpen(s.openaiWs) THEN Inc(@) ELSE @,
              !.correctionsSinceReset = IF IsOpen(s.openaiWs) THEN Inc(@) ELSE @])

\* index.ts sendBookingCorrection
sendBookingCorrection(s) ==
  IF s.bookingCorrectionSent THEN s
  ELSE sendBookingFailureResponse(
         [s EXCEPT !.bookingCorrectionSent = TRUE,
                   !.correctionsSinceAttempt = IF IsOpen(s.openaiWs) THEN Inc(@) ELSE @,
                   !.correctionsSinceReset = IF IsOpen(s.openaiWs) THEN Inc(@) ELSE @])

\* index.ts captureReason / captureCallerName / markFollowUp
captureReason(s, reason) == [s EXCEPT !.callSummaryState.primaryReason = reason]
captureCallerName(s, name) ==
  IF s.callSummaryState.callerName = NULL
  THEN [s EXCEPT !.callSummaryState.callerName = name] ELSE s
markFollowUp(s, note) ==
  IF s.callSummaryState.followUpNote = NULL
  THEN [s EXCEPT !.callSummaryState.followUpNote = note] ELSE s

\* index.ts buildAppointmentDedupeKey (startISO and endISO as the tool call
\* spelled them)
buildAppointmentDedupeKey(c, raw) ==
  <<Coalesce(callSid[c], Coalesce(streamSid[c], UNKNOWN_SESSION)), raw>>

\* one idempotency source for the whole process
buildIdempotencySource_perProcess(c) == UNKNOWN_SESSION
\* index.ts buildIdempotencySource
buildIdempotencySource(c) ==
  Coalesce(callSid[c], Coalesce(streamSid[c], Coalesce(conversationId[c], UNKNOWN_SESSION)))

\* A create call with a complete payload begins a booking attempt ...
AttemptBegun(s, toolCallId) ==
  [s EXCEPT !.lastAttempt = [id |-> toolCallId, outcome |-> "pending"],
            !.correctionsSinceAttempt = 0]

\* ... and the attempt begun last ends when its call is answered
AttemptEnded(s, toolCallId, outcome) ==
  IF s.lastAttempt.id = toolCallId THEN [s EXCEPT !.lastAttempt.outcome = outcome] ELSE s

\* how an attempt that got `result` ended
OutcomeOf(result) == IF result.created THEN "confirmed" ELSE "unconfirmed"

\* index.ts handleToolCall, lines 702-715: createAppointment returned `result`
CreateReturned(s, toolCallId, dedupeKey, now, result) ==
  LET s1 == [AttemptEnded(s, toolCallId, OutcomeOf(result)) EXCEPT !.recentAppointments[dedupeKey] =
                         [timestamp |-> now, result |-> result],
                      !.lastBookingCreateResult = result,
                      !.lastBookingCreateCallId = toolCallId,
                      !.bookingCorrectionSent = FALSE,
                      !.correctionsSinceReset = 0,
                      !.instructionsSinceResult = 0,
                      !.claimsSinceResult = 0,
                      !.callSummaryState.appointmentBooked = Bool3(result.created),
                      !.callSummaryState.appointmentStartISO = result.startISO]
  IN  sendBookingFailureNotice(sendToolOutputCached(s1, toolCallId, result), result)

\* index.ts handleToolCall, lines 680-693: the dedupe map answers
DedupeHit(s, toolCallId, existing) ==
  sendToolOutputCached(
    [AttemptEnded(s, toolCallId, OutcomeOf(existing.result)) EXCEPT
              !.lastBookingCreateResult = existing.result,
              !.lastBookingCreateCallId = toolCallId,
              !.bookingCorrectionSent = FALSE,
              !.correctionsSinceReset = 0,
              !.instructionsSinceResult = 0,
              !.claimsSinceResult = 0],
    toolCallId, existing.result)

\* The error with which a Booking Operation rejects, as the catch of
\* handleToolCall sees it: its class and, for a BookingToolError, its code.
Surfaces(s, kind, code) ==
  IF "errors" \in scope.logged
  THEN [s EXCEPT !.surfaced = [kind |-> kind, code |-> code]] ELSE s

\* the catch also re-arming the correction latch
BookingToolErrorCaught_rearmed(s, toolCallId, name, code) ==
  LET s1 == sendToolOutputCached([s EXCEPT !.bookingCorrectionSent = FALSE],
                                 toolCallId, ErrorOutput(code))
  IN  IF name = "booking_create_appointment"
      THEN sendBookingFailureResponse(AttemptEnded(s1, toolCallId, "error")) ELSE s1
\* index.ts handleToolCall, lines 780-790: catch of a BookingToolError
BookingToolErrorCaught(s, toolCallId, name, code) ==
  LET s1 == sendToolOutputCached(Surfaces(s, "BookingToolError", code), toolCallId,
                                 ErrorOutput(code))
  IN  IF name = "booking_create_appointment"
      THEN sendBookingFailureResponse(AttemptEnded(s1, toolCallId, "error")) ELSE s1

\* index.ts handleToolCall, lines 792-795: catch of any other error
ExceptionCaught(s, toolCallId) ==
  sendToolOutputCached(s, toolCallId, ErrorOutput("booking_error"))

\* ------------------------------------------------------ the Calendar Gateway

\* the gateway's entries never expiring
PruneExpired_never(entry, now) == FALSE

\* GoogleCalendarAdapter.ts pruneIdempotencyCache: the entries that survive
PruneExpired(entry, now) == now - entry.createdAt > IDEMPOTENCY_TTL_MS

\* a prune that empties the cache
pruneIdempotencyCache_all(cache, now) == [k \in IdempotencyKeys |-> NoCache]
pruneIdempotencyCache(cache, now) ==
  [k \in IdempotencyKeys |->
     IF cache[k].status # "none" /\ PruneExpired(cache[k], now) THEN NoCache ELSE cache[k]]

\* a prune that forgets every in-flight promise
prunePromises_all(cache, promises, now) == [k \in IdempotencyKeys |-> NoPromise]
\* ... and the inflightPromises it deletes with them
prunePromises(cache, promises, now) ==
  [k \in IdempotencyKeys |->
     IF cache[k].status # "none" /\ PruneExpired(cache[k], now) THEN NoPromise
     ELSE promises[k]]

\* the gateway never finding an entry for the key
AnswersFromCache_never(cached) == FALSE

\* Whether createEvent answers from the cache entry instead of inserting
\* (`if (cached)`).
AnswersFromCache(cached) == cached.status # "none"

\* GoogleCalendarAdapter.createEvent up to its first await (not reached in dry
\* run: createAppointment returns before it).  `do` says how it goes on:
\*   "return"  with eventId, from a cache entry,
\*   "await"   the in-flight promise of `promise`,
\*   "throw"   buildOAuthClient threw "... is missing" (the in-flight entry stays),
\*   "insert"  calendar.events.insert is called.
createEvent(cache0, promises0, key, now) ==
  LET cache == pruneIdempotencyCache(cache0, now)
      promises == prunePromises(cache0, promises0, now)
      cached == cache[key]
      marked == [cache EXCEPT ![key] =
                   [status |-> "inflight", eventId |-> 0, createdAt |-> now]]
  IN  IF AnswersFromCache(cached)
      THEN IF cached.status = "inflight" /\ promises[key] # NoPromise
           THEN [do |-> "await", promise |-> promises[key], eventId |-> 0,
                 cache |-> cache, promises |-> promises]
           ELSE [do |-> "return", promise |-> NoPromise, eventId |-> cached.eventId,
                 cache |-> cache, promises |-> promises]
      ELSE IF ~processEnv.GOOGLE_OAUTH
           THEN [do |-> "throw", promise |-> NoPromise, eventId |-> 0,
                 cache |-> marked, promises |-> promises]
           ELSE [do |-> "insert", promise |-> NoPromise, eventId |-> 0,
                 cache |-> marked, promises |-> promises]

\* any answer of the gateway taken as a confirmation
Confirmed_always(eventId) == TRUE

\* bookingTools.ts createAppointment, lines 449-472: what it makes of the
\* gateway's answer {eventId}: the output, or the typed error
\* "Unable to confirm appointment booking."
Confirmed(eventId) == eventId # 0

\* the failure's own name passed on as the code
ErrorCode_raw(outcome) == outcome
\* bookingTools.ts isBookingConfigError applied to the error a failed insert
\* carries: "auth" stands for invalid_grant / invalid_client
ErrorCode(outcome) ==
  IF outcome = "auth" THEN "booking_not_configured" ELSE "booking_error"

\* ------------------------------------------------------------ handleToolCall

\* What one run of handleToolCall, up to its first await on I/O, does: the
\* session it leaves, the gateway maps, the insert log, the suspended task (if
\* it awaits), the promise it joined, and whether a booking operation
\* (checkAvailability, createAppointment, ...) was invoked.
Effect(s, g, log, task, awaitOn, dispatched, enabled) ==
  [s |-> s, cache |-> g.cache, promises |-> g.promises, log |-> log, task |-> task,
   awaitOn |-> awaitOn, dispatched |-> dispatched, enabled |-> enabled]

Gateway == [cache |-> idempotencyCache, promises |-> inflightPromises]

\* the handler finished without touching the gateway
Finished(s, dispatched) == Effect(s, Gateway, insertLog, NoTask, NoPromise, dispatched, TRUE)

Task(stage, name, raw, now, dedupeKey, key, logIx) ==
  [stage |-> stage, name |-> name, iso |-> raw, now |-> now, dedupeKey |-> dedupeKey,
   key |-> key, attempt |-> 0, logIx |-> logIx, awaiters |-> <<>>]

\* index.ts isBookingCreateAppointmentInput: an object with the strings
\* startISO, endISO, name and reason
isBookingCreateAppointmentInput(shape) == shape = "valid"
\* index.ts isBookingFindAppointmentInput: an object; every field is optional
isBookingFindAppointmentInput(shape) == shape \notin {"unparsable", "null"}
\* isBookingUpdateAppointmentInput accepting whatever was parsed
isBookingUpdateAppointmentInput_unchecked(shape) == TRUE
\* index.ts isBookingUpdateAppointmentInput: an object with the strings
\* eventId, startISO and endISO
isBookingUpdateAppointmentInput(shape) == shape = "valid"
\* index.ts isBookingCancelAppointmentInput: an object with the string eventId
isBookingCancelAppointmentInput(shape) == shape = "valid"

InvalidArguments(s, toolCallId) ==
  Finished(sendToolOutputCached(s, toolCallId, ErrorOutput("invalid_arguments")), FALSE)

\* `existing && now - existing.timestamp < appointmentDedupeWindowMs`
WithinDedupeWindow(existing, now) ==
  existing # NoEntry /\ now - existing.timestamp < appointmentDedupeWindowMs

\* the credentials getCalendarAdapter() and buildOAuthClient() require
CalendarConfigured == processEnv.GOOGLE_CALENDAR_ID /\ processEnv.GOOGLE_OAUTH

\* handleToolCall, booking_create_appointment branch (lines 661-716), with
\* createAppointment (bookingTools.ts 406-485) and createEvent inlined up to
\* the first await on the remote insert
CreateBranch(c, toolCallId, s, shape, raw) ==
  LET name == "booking_create_appointment"
      s2 == captureReason(
              captureCallerName(
                [AttemptBegun(s, toolCallId) EXCEPT
                   !.callSummaryState.appointmentRequested = TRUE],
                "caller"),
              "caller reason")
      dedupeKey == buildAppointmentDedupeKey(c, raw)
      existing == s2.recentAppointments[dedupeKey]
      now == clock
      s3 == [s2 EXCEPT !.recentAppointments[dedupeKey] = NoEntry]
      iso == ToISOString(raw)
      key == <<buildIdempotencySource(c), iso>>
      g == createEvent(idempotencyCache, inflightPromises, key, clock)
      ix == Len(insertLog) + 1
  IN  IF ~isBookingCreateAppointmentInput(shape) THEN InvalidArguments(s, toolCallId)
      ELSE IF WithinDedupeWindow(existing, now)
      THEN Finished(DedupeHit(s2, toolCallId, existing), FALSE)
      ELSE IF iso = INVALID_DATE
      THEN \* start.toISOString() throws before the try block
           Finished(AttemptEnded(ExceptionCaught(Surfaces(s3, "RangeError", NULL),
                                                 toolCallId),
                                 toolCallId, "error"),
                    TRUE)
      ELSE IF processEnv.BOOKING_DRY_RUN
      THEN Finished(CreateReturned(s3, toolCallId, dedupeKey, now,
                                   CreateOutput(FALSE, TRUE, 0, iso)), TRUE)
      ELSE IF ~processEnv.GOOGLE_CALENDAR_ID
      THEN Finished(BookingToolErrorCaught(s3, toolCallId, name,
                                           "booking_not_configured"), TRUE)
      ELSE IF g.do = "return"
      THEN Effect(IF Confirmed(g.eventId)
                  THEN CreateReturned(s3, toolCallId, dedupeKey, now,
                                      CreateOutput(TRUE, FALSE, g.eventId, iso))
                  ELSE BookingToolErrorCaught(s3, toolCallId, name, "booking_error"),
                  g, insertLog, NoTask, NoPromise, TRUE, TRUE)
      ELSE IF g.do = "throw"
      THEN Effect(BookingToolErrorCaught(s3, toolCallId, name, "booking_not_configured"),
                  g, insertLog, NoTask, NoPromise, TRUE, TRUE)
      ELSE IF g.do = "await"
      THEN Effect(s3, g, insertLog,
                  Task("await", name, raw, now, dedupeKey, key, 0),
                  g.promise, TRUE, TRUE)
      ELSE \* g.do = "insert": calendar.events.insert is called
           Effect(s3,
                  [cache |-> g.cache,
                   promises |-> [g.promises EXCEPT ![key] = <<c, toolCallId>>]],
                  Append(insertLog, [key |-> key, at |-> clock, status |-> "pending",
                                     by |-> <<c, toolCallId>>]),
                  Task("insert", name, raw, now, dedupeKey, key, ix),
                  NoPromise, TRUE, Len(insertLog) < scope.maxInserts)

\* handleToolCall, the other four tools (lines 656-660 and 717-774) up to the
\* await on the booking operation
OtherBranch(c, toolCallId, s, name, shape, raw) ==
  LET requested == [s EXCEPT !.callSummaryState.appointmentRequested = TRUE]
      suspended(s1) ==
        IF ~CalendarConfigured
        THEN Finished(BookingToolErrorCaught(s1, toolCallId, name,
                                             "booking_not_configured"), TRUE)
        ELSE Effect(s1, Gateway, insertLog,
                    Task("op", name, raw, clock, <<>>, <<>>, 0), NoPromise, TRUE, TRUE)
  IN  IF name = "booking_check_availability"
      THEN IF shape = "null"
           THEN \* checkAvailability(null) throws a TypeError before its try block
                Finished(ExceptionCaught(Surfaces(s, "TypeError", NULL), toolCallId), TRUE)
           ELSE IF processEnv.BOOKING_DRY_RUN
           THEN Finished(sendToolOutputCached(s, toolCallId,
                           OtherOutput("availability", TRUE, 0, NULL)), TRUE)
           ELSE suspended(s)
      ELSE IF name = "find_event"
      THEN IF ~isBookingFindAppointmentInput(shape) THEN InvalidArguments(s, toolCallId)
           ELSE suspended(captureReason(requested, "Locate an existing appointment."))
      ELSE IF name = "update_event"
      THEN IF ~isBookingUpdateAppointmentInput(shape) THEN InvalidArguments(s, toolCallId)
           ELSE IF CalendarConfigured /\ ToISOString(raw) = INVALID_DATE
           THEN \* toISOString() throws inside updateEvent's try block
                Finished(BookingToolErrorCaught(
                           captureReason(requested, "Reschedule an existing appointment."),
                           toolCallId, name, "booking_error"), TRUE)
           ELSE suspended(captureReason(requested, "Reschedule an existing appointment."))
      ELSE IF name = "cancel_event"
      THEN IF ~isBookingCancelAppointmentInput(shape) THEN InvalidArguments(s, toolCallId)
           ELSE suspended(captureReason(requested, "Cancel an existing appointment."))
      ELSE Finished(sendToolOutputCached(s, toolCallId, ErrorOutput("unknown_tool")), FALSE)

IsCalendarTool(name) ==
  name \in {"booking_check_availability", "booking_create_appointment", "find_event",
            "update_event", "cancel_event"}

\* the tool-call cache answering "never seen"
IsProcessed_never(s, toolCallId) == FALSE
\* `processedToolCalls.get(toolCall.callId)` is truthy
IsProcessed(s, toolCallId) == s.processedToolCalls[toolCallId] # NoResult
IsInflight_never(s, toolCallId) == FALSE
\* `inflightToolCalls.has(toolCall.callId)`
IsInflight(s, toolCallId) == toolCallId \in s.inflightToolCalls

\* handleToolCall (lines 596-797) up to its first await on I/O
ToolCallEffect(c, toolCallId, name, shape, raw) ==
  LET s == Session(c)
      marked == [s EXCEPT !.inflightToolCalls = @ \cup {toolCallId},
                          !.flightReplies[toolCallId] = 0,
                          !.duplicates[toolCallId] = 0]
      dropped == [s EXCEPT !.duplicates[toolCallId] =
                             IF "replies" \in scope.logged THEN Inc(@) ELSE @]
      s1 == IF IsCalendarTool(name) THEN sendCalendarFiller(marked) ELSE marked
  IN  IF IsProcessed(s, toolCallId)
      THEN Finished(sendToolOutput(s, toolCallId, s.processedToolCalls[toolCallId]), FALSE)
      ELSE IF IsInflight(s, toolCallId)
      THEN Finished(dropped, FALSE)
      ELSE IF shape = "unparsable"
      THEN InvalidArguments(s1, toolCallId)
      ELSE IF name = "booking_create_appointment"
      THEN CreateBranch(c, toolCallId, s1, shape, raw)
      ELSE OtherBranch(c, toolCallId, s1, name, shape, raw)

\* the variables no tool-call step writes
ToolFrame ==
  UNCHANGED <<processEnv, scope, svcVars, clock, sentPostCallSummaries, streamSid, callSid,
              conversationId, coachVars, mode, pendingGreeting, openaiWs, twilioWs,
              assistantBuffer, smsTask>>

\* A tool-call event (response.function_call_arguments.done or
\* response.output_item.done) arrives on the AI socket.
HandleToolCall(c, toolCallId, name, shape, raw) ==
  /\ Idle
  /\ openaiWs[c] \in {"OPEN", "CLOSING"}
  /\ LET e == ToolCallEffect(c, toolCallId, name, shape, raw)
     IN  /\ e.enabled
         /\ Commit(c, e.s)
         /\ idempotencyCache' = e.cache
         /\ inflightPromises' = e.promises
         /\ insertLog' = e.log
         /\ toolTask' =
              LET mine == [toolTask EXCEPT ![c][toolCallId] =
                             IF e.task = NoTask THEN @ ELSE e.task]
              IN  IF e.awaitOn = NoPromise THEN mine
                  ELSE [mine EXCEPT ![e.awaitOn[1]][e.awaitOn[2]].awaiters =
                                      Append(@, <<c, toolCallId>>)]
         /\ dispatchCount' =
              IF e.dispatched THEN [dispatchCount EXCEPT ![c][toolCallId] = Inc(@)]
              ELSE dispatchCount
  /\ microtasks' = microtasks
  /\ ToolFrame

\* the connection variables a tool continuation leaves alone, with the process
\* variables the gateway does not own
ContinuationFrame ==
  UNCHANGED <<processEnv, scope, svcVars, clock, sentPostCallSummaries, streamSid, callSid,
              conversationId, coachVars, mode, pendingGreeting, openaiWs, twilioWs,
              assistantBuffer, smsTask, dispatchCount>>

\* error.response.status of the error a failed remote call carries
HttpStatus(outcome) ==
  CASE outcome = "rate" -> 429
    [] outcome \in {"rate403", "forbidden"} -> 403
    [] outcome = "auth" -> 400
    [] OTHER -> 500

\* error.response.data.error.errors[].reason
Reasons(outcome) ==
  CASE outcome = "rate403" -> {"rateLimitExceeded"}
    [] outcome = "forbidden" -> {"forbidden"}
    [] OTHER -> {}

\* GoogleCalendarAdapter.ts isRateLimitError (an answer that is no error is
\* never passed to it)
isRateLimitError(outcome) ==
  IF outcome \in {"ok", "noid"} THEN FALSE
  ELSE IF HttpStatus(outcome) # 403 /\ HttpStatus(outcome) # 429 THEN FALSE
  ELSE \/ HttpStatus(outcome) = 429
       \/ Reasons(outcome) \cap {"rateLimitExceeded", "userRateLimitExceeded"} # {}
\* withCalendarRetry retrying after every error
Retries_anyError(outcome, attempt) ==
  outcome \notin {"ok", "noid"} /\ attempt < RATE_LIMIT_RETRY_DELAYS_MS_length
\* withCalendarRetry: a rate-limit answer is retried while delays remain
\* (`!isRateLimitError(error) || attempt === RATE_LIMIT_RETRY_DELAYS_MS.length`
\* rethrows)
Retries(outcome, attempt) ==
  isRateLimitError(outcome) /\ attempt < RATE_LIMIT_RETRY_DELAYS_MS_length

\* idempotencyCache after insertPromise settles: .then stores the done entry,
\* .catch deletes the key
SettledCache(cache, key, outcome, eventId, now) ==
  IF outcome \in {"ok", "noid"}
  THEN [cache EXCEPT ![key] = [status |-> "done", eventId |-> eventId, createdAt |-> now]]
  ELSE [cache EXCEPT ![key] = NoCache]

\* The remote calendar answers the insert of task (c, toolCallId).  A
\* rate-limit answer with retries left makes withCalendarRetry insert again
\* (after its delay, which is far below the clock's minute); any other answer
\* settles insertPromise: .then/.catch/.finally run, and the owner's and the
\* awaiters' continuations become ready, in the order they subscribed.
InsertResponse(c, toolCallId, outcome) ==
  LET task == toolTask[c][toolCallId]
      eventId == IF outcome = "ok" THEN task.logIx ELSE 0
      status == IF outcome \in {"ok", "noid"} THEN outcome ELSE "failed"
      ready(who) == [c |-> who[1], toolCallId |-> who[2], outcome |-> outcome,
                     eventId |-> eventId]
  IN  /\ Idle
      /\ task.stage = "insert"
      /\ outcome \in scope.outcomes
      /\ IF Retries(outcome, task.attempt)
         THEN /\ Len(insertLog) < scope.maxInserts
              /\ insertLog' = Append([insertLog EXCEPT ![task.logIx].status = "failed"],
                                     [key |-> task.key, at |-> clock, status |-> "pending",
                                      by |-> <<c, toolCallId>>])
              /\ toolTask' = [toolTask EXCEPT ![c][toolCallId].attempt = @ + 1,
                                              ![c][toolCallId].logIx = Len(insertLog) + 1]
              /\ UNCHANGED <<idempotencyCache, inflightPromises, microtasks>>
         ELSE /\ insertLog' = [insertLog EXCEPT ![task.logIx].status = status]
              /\ idempotencyCache' =
                   SettledCache(idempotencyCache, task.key, outcome, eventId, clock)
              /\ inflightPromises' = [inflightPromises EXCEPT ![task.key] = NoPromise]
              /\ toolTask' = [toolTask EXCEPT ![c][toolCallId].stage = "settled",
                                              ![c][toolCallId].awaiters = <<>>]
              /\ microtasks' =
                   <<ready(<<c, toolCallId>>)>> \o
                   [i \in 1..Len(task.awaiters) |-> ready(task.awaiters[i])]
      /\ UNCHANGED <<connVars, processEnv, scope, svcVars, clock, sentPostCallSummaries,
                     smsTask, dispatchCount, aiLog, obs>>

\* createAppointment and handleToolCall after `await adapter.createEvent(...)`
CreateContinuation(s, toolCallId, task, outcome, eventId) ==
  IF outcome \in {"ok", "noid"}
  THEN IF Confirmed(eventId)
       THEN CreateReturned(s, toolCallId, task.dedupeKey, task.now,
                           CreateOutput(TRUE, FALSE, eventId, ToISOString(task.iso)))
       ELSE BookingToolErrorCaught(s, toolCallId, task.name, "booking_error")
  ELSE BookingToolErrorCaught(s, toolCallId, task.name, ErrorCode(outcome))

\* The first ready continuation runs: createEvent returns or throws in a
\* handleToolCall that awaited the insert.
ResumeToolCall ==
  /\ microtasks # <<>>
  /\ LET m == Head(microtasks)
         task == toolTask[m.c][m.toolCallId]
     IN  /\ Commit(m.c, CreateContinuation(Session(m.c), m.toolCallId, task,
                                           m.outcome, m.eventId))
         /\ toolTask' = [toolTask EXCEPT ![m.c][m.toolCallId] = NoTask]
  /\ microtasks' = Tail(microtasks)
  /\ UNCHANGED <<idempotencyCache, inflightPromises, insertLog>>
  /\ ContinuationFrame

\* handleToolCall after the await of checkAvailability, findAppointment,
\* updateAppointment or cancelAppointment
OpContinuation(s, toolCallId, task, outcome) ==
  IF outcome \in {"booking_not_configured", "booking_error"}
  THEN BookingToolErrorCaught(s, toolCallId, task.name, outcome)
  ELSE IF task.name = "booking_check_availability"
  THEN sendToolOutputCached(s, toolCallId, OtherOutput("availability", TRUE, 0, NULL))
  ELSE IF task.name = "find_event"
  THEN sendToolOutputCached(
         IF outcome = "empty" THEN markFollowUp(s, "No matching appointment found.") ELSE s,
         toolCallId, OtherOutput("find", outcome # "empty", 0, NULL))
  ELSE IF task.name = "update_event"
  THEN sendToolOutputCached(
         [s EXCEPT !.callSummaryState.appointmentBooked = Bool3(TRUE),
                   !.callSummaryState.appointmentStartISO = ToISOString(task.iso)],
         toolCallId, OtherOutput("update", TRUE, 0, ToISOString(task.iso)))
  ELSE \* cancel_event: result.cancelled is always true
       sendToolOutputCached(
         [s EXCEPT !.callSummaryState.appointmentBooked = Bool3(FALSE)],
         toolCallId, OtherOutput("cancel", TRUE, 0, NULL))

\* The remote calendar answers a read, an update or a delete, and the booking
\* operation returns or throws its typed error.
OpComplete(c, toolCallId, outcome) ==
  LET task == toolTask[c][toolCallId]
  IN  /\ Idle
      /\ task.stage = "op"
      /\ outcome \in scope.opOutcomes
      /\ outcome = "empty" => task.name = "find_event"
      /\ Commit(c, OpContinuation(Session(c), toolCallId, task, outcome))
      /\ toolTask' = [toolTask EXCEPT ![c][toolCallId] = NoTask]
      /\ UNCHANGED <<idempotencyCache, inflightPromises, insertLog, microtasks>>
      /\ ContinuationFrame

\* updateEvent and cancelEvent wrap their remote call in withCalendarRetry
\* (lines 248 and 287); getAvailability and listEvents call
\* calendar.freebusy.query and calendar.events.list directly (lines 96, 213)
WithCalendarRetry(name) == name \in {"update_event", "cancel_event"}

\* The remote calendar answers the read, update or delete of task
\* (c, toolCallId) with a rate-limit error: withCalendarRetry, where the
\* gateway operation uses it and delays remain, calls again; otherwise the
\* error reaches the booking operation, which throws booking_error.
OpRateLimited(c, toolCallId, outcome) ==
  LET task == toolTask[c][toolCallId]
  IN  /\ Idle
      /\ task.stage = "op"
      /\ outcome \in scope.outcomes
      /\ isRateLimitError(outcome)
      /\ IF WithCalendarRetry(task.name) /\ Retries(outcome, task.attempt)
         THEN /\ toolTask' = [toolTask EXCEPT ![c][toolCallId].attempt = @ + 1]
              /\ UNCHANGED <<connVars, aiLog, obs>>
         ELSE /\ Commit(c, OpContinuation(Session(c), toolCallId, task, "booking_error"))
              /\ toolTask' = [toolTask EXCEPT ![c][toolCallId] = NoTask]
              /\ UNCHANGED <<streamSid, callSid, conversationId, coachVars, mode, pendingGreeting,
                             openaiWs, twilioWs, assistantBuffer>>
      /\ UNCHANGED <<procVars, smsTask, microtasks, insertLog, dispatchCount>>
\* At time `now` the gateway call of task has been waiting for its remote
\* insert longer than the gateway keeps its in-flight entry.
Overdue(task, now) == task.stage = "insert" /\ PruneExpired([createdAt |-> task.now], now)

\* A minute passes.
Tick ==
  /\ Idle
  /\ clock < scope.maxClock
  /\ clock' = clock + 1
  /\ obs' = [obs EXCEPT !.overdue =
                @ \/ \E c \in Conns, id \in ToolCallIds : Overdue(toolTask[c][id], clock + 1)]
  /\ UNCHANGED <<processEnv, scope, svcVars, idempotencyCache, inflightPromises,
                 sentPostCallSummaries, connVars, taskVars, insertLog, dispatchCount,
                 aiLog>>

\* ------------------------------------------------- the media-stream handlers

\* a connection made at every stream-start
ShouldConnect_always(ws) == TRUE

\* `if (!openaiWs)`: the start handler creates the AI connection
ShouldConnect(ws) == ws = NULL

\* the greeting is sent to a socket in any state
sendGreeting_unguarded(ws, log) ==
  <<FALSE, IF "greeting" \in scope.logged THEN [log EXCEPT !.greeting = Inc(@)] ELSE log>>

\* index.ts sendGreeting on a socket in state ws: <<pendingGreeting, aiLog>>
sendGreeting(ws, log) ==
  IF ~IsOpen(ws) THEN <<TRUE, log>> ELSE <<FALSE, Sent(log, ws, "greeting")>>

\* `mode === "spanish_coach" ? spanishCoachPrompt : receptionistPrompt`; a
\* user's call_instructions are appended to spanishCoachPrompt and leave it the
\* coach's instruction set
InstructionsFor(m) ==
  IF m = "spanish_coach" THEN "spanishCoachPrompt" ELSE "receptionistPrompt"

\* twilioWs.on("message"), msg.event === "start" (lines 827-941); the call
\* log's started_at, written in spanish_coach mode, is not modelled
Start(c, p) ==
  LET ws == IF ShouldConnect(openaiWs[c]) THEN "CONNECTING" ELSE openaiWs[c]
      greeted == sendGreeting(ws, aiLog[c])
  IN  /\ Idle
      /\ twilioWs[c] = "OPEN"
      /\ c \in scope.conns
      /\ p \in scope.starts
      /\ streamSid' = [streamSid EXCEPT ![c] = p.streamSid]
      /\ callSid' = [callSid EXCEPT ![c] = p.callSid]
      /\ mode' = [mode EXCEPT ![c] = p.mode]
      /\ userId' = [userId EXCEPT ![c] = p.userId]
      /\ callSummaryState' = [callSummaryState EXCEPT ![c].callSid = p.callSid,
                                                      ![c].callerPhone = p.from]
      /\ lastBookingCreateResult' = [lastBookingCreateResult EXCEPT ![c] = NoResult]
      /\ lastBookingCreateCallId' = [lastBookingCreateCallId EXCEPT ![c] = NULL]
      /\ bookingCorrectionSent' = [bookingCorrectionSent EXCEPT ![c] = FALSE]
      /\ openaiWs' = [openaiWs EXCEPT ![c] = ws]
      /\ pendingGreeting' = [pendingGreeting EXCEPT ![c] = greeted[1]]
      /\ aiLog' = [aiLog EXCEPT ![c] = greeted[2]]
      /\ obs' = [obs EXCEPT !.aiConnections[c] =
                              IF ShouldConnect(openaiWs[c]) THEN Inc(@) ELSE @,
                            !.instructions[c] =
                              IF ShouldConnect(openaiWs[c])
                              THEN InstructionsFor(p.mode) ELSE @,
                            !.correctionsSinceAttempt[c] = 0,
                            !.correctionsSinceReset[c] = 0,
                            !.instructionsSinceResult[c] = 0,
                            !.claimsSinceResult[c] = 0,
                            !.lastAttempt[c] = NoAttempt,
                            !.coached[c] =
                              @ \/ ("modes" \in scope.logged /\ p.mode = "spanish_coach"),
                            !.startsWhileConnecting[c] =
                              IF "starts" \in scope.logged /\ ws = "CONNECTING"
                              THEN Inc(@) ELSE @]
      /\ UNCHANGED <<procVars, conversationId, metrics, optedOut, twilioWs,
                     assistantBuffer, processedToolCalls, inflightToolCalls,
                     recentAppointments, taskVars, insertLog, dispatchCount>>

\* openaiWs.on("open") (lines 857-861)
AiOpen(c) ==
  LET greeted == IF pendingGreeting[c] THEN sendGreeting("OPEN", aiLog[c])
                 ELSE <<pendingGreeting[c], aiLog[c]>>
  IN  /\ Idle
      /\ openaiWs[c] = "CONNECTING"
      /\ openaiWs' = [openaiWs EXCEPT ![c] = "OPEN"]
      /\ pendingGreeting' = [pendingGreeting EXCEPT ![c] = greeted[1]]
      /\ aiLog' = [aiLog EXCEPT ![c] = greeted[2]]
      /\ UNCHANGED <<procVars, streamSid, callSid, conversationId, coachVars, mode, twilioWs,
                     assistantBuffer, processedToolCalls, inflightToolCalls,
                     recentAppointments, lastBookingCreateResult,
                     lastBookingCreateCallId, bookingCorrectionSent, callSummaryState,
                     taskVars, insertLog, dispatchCount, obs>>

\* openaiWs.on("close") / openaiWs.on("error") (lines 929-930): the handlers
\* only log; the socket is closed from then on
AiClosed(c) ==
  /\ Idle
  /\ openaiWs[c] \in {"CONNECTING", "OPEN", "CLOSING"}
  /\ openaiWs' = [openaiWs EXCEPT ![c] = "CLOSED"]
  /\ UNCHANGED <<procVars, streamSid, callSid, conversationId, coachVars, mode, pendingGreeting,
                 twilioWs, assistantBuffer, processedToolCalls, inflightToolCalls,
                 recentAppointments, lastBookingCreateResult, lastBookingCreateCallId,
                 bookingCorrectionSent, callSummaryState, taskVars, obsVars>>

\* openaiWs.close(): readyState after the call
Closed(ws) == IF ws \in {"CONNECTING", "OPEN"} THEN "CLOSING" ELSE ws

\* twilioWs.on("close") / twilioWs.on("error") (lines 1008-1020)
TwilioClose(c) ==
  /\ Idle
  /\ c \in scope.conns
  /\ twilioWs[c] = "OPEN"
  /\ twilioWs' = [twilioWs EXCEPT ![c] = "CLOSED"]
  /\ openaiWs' = [openaiWs EXCEPT ![c] = IF IsOpen(@) THEN Closed(@) ELSE @]
  /\ UNCHANGED <<procVars, streamSid, callSid, conversationId, coachVars, mode, pendingGreeting,
                 assistantBuffer, processedToolCalls, inflightToolCalls,
                 recentAppointments, lastBookingCreateResult, lastBookingCreateCallId,
                 bookingCorrectionSent, callSummaryState, taskVars, obsVars>>

\* ------------------------------------------------------- the assistant's text

\* response.text.delta -> noteAssistantText: the buffer grows; `kind` says
\* whether the text gathered so far matches bookingClaimRegex
TextDelta(c, kind) ==
  /\ Idle
  /\ openaiWs[c] \in {"OPEN", "CLOSING"}
  /\ kind \in scope.texts
  /\ assistantBuffer' = [assistantBuffer EXCEPT ![c] = kind]
  /\ UNCHANGED <<procVars, streamSid, callSid, conversationId, coachVars, mode, pendingGreeting,
                 openaiWs, twilioWs, processedToolCalls, inflightToolCalls,
                 recentAppointments, lastBookingCreateResult, lastBookingCreateCallId,
                 bookingCorrectionSent, callSummaryState, taskVars, obsVars>>

\* `bookingClaimRegex.test(assistantText)`
bookingClaimed(text) == text = "claim"
\* `lastBookingCreateResult?.created === true`
bookingConfirmed(result) == result.created = TRUE

\* index.ts finalizeAssistantText, receptionist branch (lines 449-469)
finalizeAssistantText(s, text) ==
  IF text # "empty" /\ bookingClaimed(text)
  THEN LET s1 == [s EXCEPT !.claimsSinceResult = Inc(@)]
       IN  IF ~bookingConfirmed(s.lastBookingCreateResult)
           THEN sendBookingCorrection(s1) ELSE s1
  ELSE s

\* assistantBuffer.includes(simplifiedPhrase / repeatPhrase / optOutPhrase)
includesSimplified(text) == text \in {"simplified", "simplified_optout"}
includesRepeat(text) == text = "repeat"
includesOptOut(text) == text \in {"optout", "simplified_optout"}

\* index.ts finalizeAssistantText, spanish_coach branch (lines 471-484)
countMarkers(m, text) ==
  [m EXCEPT !.simplifications = IF includesSimplified(text) THEN @ + 1 ELSE @,
            !.repeats = IF includesRepeat(text) THEN @ + 1 ELSE @]

\* obs.quietEvents after a text or transcript event handled in mode `md`: the
\* events a connection handled while it was not in spanish_coach mode
QuietEvent(n, md) ==
  IF "modes" \in scope.logged /\ md # "spanish_coach" THEN Inc(n) ELSE n

\* response.text.done -> finalizeAssistantText
TextDone(c) ==
  /\ Idle
  /\ openaiWs[c] \in {"OPEN", "CLOSING"}
  /\ Commit(c, IF mode[c] # "spanish_coach"
               THEN finalizeAssistantText([Session(c) EXCEPT
                                             !.quietEvents = QuietEvent(@, mode[c])],
                                          assistantBuffer[c])
               ELSE Session(c))
  /\ IF mode[c] # "spanish_coach"
     THEN UNCHANGED <<metrics, optedOut>>
     ELSE /\ metrics' = [metrics EXCEPT ![c] = countMarkers(@, assistantBuffer[c])]
          /\ metrics'[c].simplifications <= MaxMetric
          /\ metrics'[c].repeats <= MaxMetric
          /\ optedOut' = [optedOut EXCEPT ![c] = @ \/ includesOptOut(assistantBuffer[c])]
  /\ assistantBuffer' = [assistantBuffer EXCEPT ![c] = "empty"]
  /\ UNCHANGED <<procVars, streamSid, callSid, conversationId, userId, mode,
                 pendingGreeting, openaiWs, twilioWs, taskVars, insertLog,
                 dispatchCount>>

\* isSpanishAnswer(text), isEnglishAnswer(text): a word of the list occurs;
\* the transcripts are told apart by the lists they match
isSpanishAnswer(text) == text \in {"spanish", "mixed"}
isEnglishAnswer(text) == text \in {"english", "mixed"}

\* handleTranscript without `if (mode !== "spanish_coach") return;`
handleTranscript_anyMode(m, md, text) ==
  IF text = "short" THEN m
  ELSE IF isSpanishAnswer(text)
  THEN [m EXCEPT !.spanishAnswers = @ + 1,
                 !.spanishWithoutEnglish = IF ~isEnglishAnswer(text) THEN @ + 1 ELSE @]
  ELSE m
\* index.ts handleTranscript (lines 486-497); "short" is a transcript of
\* fewer than 2 characters
handleTranscript(m, md, text) ==
  IF md # "spanish_coach" THEN m
  ELSE IF text = "short" THEN m
  ELSE IF isSpanishAnswer(text)
  THEN [m EXCEPT !.spanishAnswers = @ + 1,
                 !.spanishWithoutEnglish = IF ~isEnglishAnswer(text) THEN @ + 1 ELSE @]
  ELSE m

Transcripts == {"short", "spanish", "mixed", "english"}

\* an AI message that carries a transcript -> handleTranscript
Transcript(c, text) ==
  /\ Idle
  /\ openaiWs[c] \in {"OPEN", "CLOSING"}
  /\ metrics' = [metrics EXCEPT ![c] = handleTranscript(@, mode[c], text)]
  /\ metrics'[c].spanishAnswers <= MaxMetric
  /\ obs' = [obs EXCEPT !.quietEvents[c] = QuietEvent(@, mode[c])]
  /\ UNCHANGED <<procVars, streamSid, callSid, conversationId, userId, optedOut, mode,
                 pendingGreeting, openaiWs, twilioWs, assistantBuffer,
                 processedToolCalls, inflightToolCalls, recentAppointments,
                 lastBookingCreateResult, lastBookingCreateCallId,
                 bookingCorrectionSent, callSummaryState, taskVars, insertLog,
                 dispatchCount, aiLog>>

\* any AI message that carries conversation_id while conversationId is unset
\* (lines 879-886)
AiConversationId(c, v) ==
  /\ Idle
  /\ openaiWs[c] \in {"OPEN", "CLOSING"}
  /\ conversationId[c] = NULL
  /\ v \in ConversationIds
  /\ conversationId' = [conversationId EXCEPT ![c] = v]
  /\ UNCHANGED <<procVars, coachVars, streamSid, callSid, mode, pendingGreeting, openaiWs,
                 twilioWs, assistantBuffer, processedToolCalls, inflightToolCalls,
                 recentAppointments, lastBookingCreateResult, lastBookingCreateCallId,
                 bookingCorrectionSent, callSummaryState, taskVars, obsVars>>

\* --------------------------------------------------------- the audio relay

\* the media handler sends the frame on: `if (!payloadBase64 || !openaiWs)
\* return;` then `if (openaiWs.readyState === WebSocket.OPEN)` (lines 944-948);
\* this one sends whenever there is a socket
MediaForwarded_anyState(ws, payload) == payload # NULL /\ ws # NULL

\* the media handler sends the frame on (lines 944-948)
MediaForwarded(ws, payload) == payload # NULL /\ ws # NULL /\ IsOpen(ws)

\* twilioWs.on("message"), msg.event === "media" (lines 943-956): a frame
\* with msg.media.payload = payload (NULL: the message carries none) arrives;
\* it is sent as input_audio_buffer.append with audio = payload or dropped
Media(c, payload) ==
  /\ Idle
  /\ c \in scope.conns
  /\ twilioWs[c] = "OPEN"
  /\ Len(obs.frames[c]) < MaxFrames
  /\ obs' = [obs EXCEPT
               !.frames[c] = Append(@, [payload |-> payload, ai |-> openaiWs[c]]),
               !.aiAudio[c] = IF MediaForwarded(openaiWs[c], payload)
                              THEN Append(@, payload) ELSE @]
  /\ UNCHANGED <<procVars, connVars, taskVars, insertLog, dispatchCount, aiLog>>

\* the audio-delta branch forwards whenever the media-stream socket is open
DeltaForwarded_untagged(sid, ws) == ws = "OPEN"

\* the audio-delta branch forwards: `... && streamSid` and
\* `twilioWs.readyState === WebSocket.OPEN` (lines 893-899)
DeltaForwarded(sid, ws) == sid # NULL /\ ws = "OPEN"

\* openaiWs.on("message") with type response.audio.delta or
\* output_audio_buffer.delta (lines 893-909): the delta is sent to the media
\* stream as {event: "media", streamSid, media: {payload}} or dropped
AudioDelta(c, payload) ==
  /\ Idle
  /\ openaiWs[c] \in {"OPEN", "CLOSING"}
  /\ Len(obs.deltas[c]) < MaxFrames
  /\ obs' = [obs EXCEPT
               !.deltas[c] = Append(@, [payload |-> payload, streamSid |-> streamSid[c],
                                        twilio |-> twilioWs[c]]),
               !.twilioAudio[c] =
                  IF DeltaForwarded(streamSid[c], twilioWs[c])
                  THEN Append(@, [streamSid |-> streamSid[c], payload |-> payload])
                  ELSE @]
  /\ UNCHANGED <<procVars, connVars, taskVars, insertLog, dispatchCount, aiLog>>
\* ------------------------------------------------- stop and the post-call SMS

\* index.ts isDialableNumber on the caller numbers the model sends
isDialableNumber(phone) == phone \notin {NULL, "anonymous"}

\* sendPostCallSmsSummaries, lines 364-379: the run returns before composing
SmsSkipped(c, sid) ==
  \/ ~processEnv.ENABLE_POST_CALL_SMS
  \/ mode[c] # "receptionist"
  \/ sid = NULL
  \/ sid \in sentPostCallSummaries

\* `sendSummaryToCaller && isDialableNumber(callSummaryState.callerPhone)`
SendsToCaller(c) ==
  processEnv.SEND_SUMMARY_TO_CALLER /\ isDialableNumber(callSummaryState[c].callerPhone)

\* index.ts normalizeReason: the default for no reason; a full stop is added
\* to a reason that lacks one (of the reasons the handlers capture only the
\* caller's own)
normalizeReason(reason) ==
  CASE reason = NULL -> "General inquiry."
    [] reason = "caller reason" -> "caller reason."
    [] OTHER -> reason

\* `callSummaryState.appointmentBooked ? ... : "Outcome: No appointment booked"`
SummaryOutcome(summary) ==
  IF summary.appointmentBooked = "true"
  THEN [booked |-> TRUE, at |-> summary.appointmentStartISO]
  ELSE [booked |-> FALSE, at |-> NULL]

\* `callSummaryState.followUpNote || (appointmentRequested && !appointmentBooked
\* ? fallback : null)`
SummaryFollowUp(summary, fallback) ==
  IF summary.followUpNote # NULL THEN summary.followUpNote
  ELSE IF summary.appointmentRequested /\ summary.appointmentBooked # "true"
  THEN fallback ELSE NULL

\* index.ts buildOwnerSummaryBody: the lines of the owner's message (the
\* duration line is left out: the model keeps no call times)
buildOwnerSummaryBody(summary) ==
  [kind |-> "owner",
   caller |-> Coalesce(summary.callerName, "Unknown caller"),
   number |-> Coalesce(summary.callerPhone, "Unknown number"),
   reason |-> normalizeReason(summary.primaryReason),
   outcome |-> SummaryOutcome(summary),
   followUp |-> SummaryFollowUp(summary, "Confirm next steps with the caller.")]

\* index.ts buildCallerSummaryBody
buildCallerSummaryBody(summary) ==
  [kind |-> "caller",
   reason |-> normalizeReason(summary.primaryReason),
   outcome |-> SummaryOutcome(summary),
   followUp |-> SummaryFollowUp(summary, "Please contact us if you'd like to schedule.")]

\* sendPostCallSmsSummaries, lines 381-383: a run of stage `stage` composed
\* both bodies from callSummaryState as it is now.  A specification keeps the
\* bodies, and the summary they were composed from, when its claims are about
\* them (scope.logged).
SmsRun(stage, summary) ==
  IF "sms" \in scope.logged
  THEN [stage |-> stage, summary |-> summary,
        ownerBody |-> buildOwnerSummaryBody(summary),
        callerBody |-> buildCallerSummaryBody(summary)]
  ELSE [stage |-> stage, summary |-> NoSummary, ownerBody |-> NoBody,
        callerBody |-> NoBody]

\* the caller's message composed when it is sent
callerBodySent_recomposed(run, summary) == buildCallerSummaryBody(summary)
\* `sendSms(callSummaryState.callerPhone!, callerBody)` (line 401)
callerBodySent(run, summary) == run.callerBody

\* obs.lastSms after sendSms(to, body)
SmsHanded(was, to, body) ==
  IF "sms" \in scope.logged THEN [to |-> to, body |-> body] ELSE was

\* sendPostCallSmsSummaries up to its first await: the stage it suspends in,
\* "none" when it returns without sending
SmsFirstStage(c, sid) ==
  IF SmsSkipped(c, sid) THEN "none"
  ELSE IF processEnv.BUSINESS_OWNER_PHONE THEN "owner"
  ELSE IF SendsToCaller(c) THEN "caller"
  ELSE "none"

\* The stop handler ran to its end: it committed the input audio if the AI
\* socket was open, closed the AI socket and called sendPostCallSmsSummaries.
\* A specification records it when its claims are about it (scope.logged).
Finalized(was) == was \/ "finalized" \in scope.logged

Min(a, b) == IF a < b THEN a ELSE b
Max(a, b) == IF a > b THEN a ELSE b

mapScoreToLevel(score) ==
  IF score <= 25 THEN "A0" ELSE IF score <= 50 THEN "A1"
  ELSE IF score <= 75 THEN "A2" ELSE "B1"

computeScore_swapped(m) ==
  LET s1 == IF m.spanishWithoutEnglish >= 2 THEN 20 ELSE 0
      s2 == IF m.spanishAnswers >= 1 THEN s1 + 20 ELSE s1
      s3 == s2 - m.simplifications * 10
  IN Max(0, Min(100, s3))

\* computeScore without `Math.max(0, Math.min(100, score))`
computeScore_unclamped(m) ==
  LET s1 == IF m.spanishWithoutEnglish >= 1 THEN 20 ELSE 0
      s2 == IF m.spanishAnswers >= 2 THEN s1 + 20 ELSE s1
  IN s2 - m.simplifications * 10
computeScore(m) ==
  LET s1 == IF m.spanishWithoutEnglish >= 1 THEN 20 ELSE 0
      s2 == IF m.spanishAnswers >= 2 THEN s1 + 20 ELSE s1
      s3 == s2 - m.simplifications * 10
  IN Max(0, Min(100, s3))

\* The stop handler's spanish_coach bookkeeping (lines 970-995): what it
\* passes to updateCallLogBySid, updateUserLevel and setUserInactiveById.
CoachBookkeeping(c, sid) ==
  LET score == computeScore(metrics[c])
      level == mapScoreToLevel(score)
  IN [call_sid |-> sid, score |-> score, level |-> level, metrics |-> metrics[c],
      outcome |-> IF optedOut[c] THEN "opted_out" ELSE "answered",
      userLevel |-> IF userId[c] # 0 THEN level ELSE NULL,
      deactivated |-> userId[c] # 0 /\ optedOut[c]]

CoachLogged(c, sid, was) ==
  IF mode[c] = "spanish_coach" /\ sid # NULL /\ "score" \in scope.logged
  THEN <<CoachBookkeeping(c, sid)>> ELSE was

\* twilioWs.on("message"), msg.event === "stop" (lines 958-1005)
Stop(c, stopSid) ==
  LET sid == IF callSid[c] = NULL /\ stopSid # NULL THEN stopSid ELSE callSid[c]
      sumSid == IF callSid[c] = NULL /\ stopSid # NULL THEN stopSid
                ELSE callSummaryState[c].callSid
      stage == SmsFirstStage(c, sumSid)
      run == SmsRun(stage, [callSummaryState[c] EXCEPT !.callSid = sumSid])
  IN  /\ Idle
      /\ twilioWs[c] = "OPEN"
      /\ c \in scope.conns
      /\ stopSid \in scope.stopSids
      /\ callSid' = [callSid EXCEPT ![c] = sid]
      /\ callSummaryState' = [callSummaryState EXCEPT ![c].callSid = sumSid]
      /\ aiLog' = [aiLog EXCEPT ![c] = IF IsOpen(openaiWs[c])
                                        THEN Sent(@, openaiWs[c], "commit") ELSE @]
      /\ openaiWs' = [openaiWs EXCEPT ![c] = Closed(@)]
      /\ IF stage = "none"
         THEN /\ UNCHANGED smsTask
              /\ obs' = [obs EXCEPT !.finalized[c] = Finalized(@),
                                    !.coachLog[c] = CoachLogged(c, sid, @)]
         ELSE /\ Len(smsTask[c]) < MaxSmsTasks
              /\ smsTask' = [smsTask EXCEPT ![c] = Append(@, run)]
              /\ obs' = [obs EXCEPT !.smsAttempts[sumSid] = Inc(@),
                                    !.lastSms[c] =
                                       SmsHanded(@, stage,
                                                 IF stage = "owner" THEN run.ownerBody
                                                 ELSE callerBodySent(run, run.summary)),
                                    !.finalized[c] = Finalized(@),
                                    !.coachLog[c] = CoachLogged(c, sid, @)]
      /\ UNCHANGED <<procVars, streamSid, conversationId, coachVars, mode, pendingGreeting,
                     twilioWs, assistantBuffer, processedToolCalls, inflightToolCalls,
                     recentAppointments, lastBookingCreateResult,
                     lastBookingCreateCallId, bookingCorrectionSent, toolTask,
                     microtasks, insertLog, dispatchCount>>

RemoveAt(seq, i) == [j \in 1..(Len(seq) - 1) |-> IF j < i THEN seq[j] ELSE seq[j + 1]]

\* sendSms of run i settles (resolved or rejected: both are caught and logged):
\* after the owner's message the caller's is sent if it is to be; at the end
\* `sentPostCallSummaries.add(callSummaryState.callSid)` (attemptedSend is true
\* in every run that awaited)
SmsSettled(c, i) ==
  /\ Idle
  /\ i \in 1..Len(smsTask[c])
  /\ IF smsTask[c][i].stage = "owner" /\ SendsToCaller(c)
     THEN /\ smsTask' = [smsTask EXCEPT ![c][i].stage = "caller"]
          /\ obs' = [obs EXCEPT !.lastSms[c] =
                       SmsHanded(@, "caller",
                                 callerBodySent(smsTask[c][i], callSummaryState[c]))]
          /\ UNCHANGED sentPostCallSummaries
     ELSE /\ smsTask' = [smsTask EXCEPT ![c] = RemoveAt(@, i)]
          /\ sentPostCallSummaries' =
               sentPostCallSummaries \cup {callSummaryState[c].callSid}
          /\ obs' = obs
  /\ UNCHANGED <<processEnv, scope, svcVars, clock, idempotencyCache, inflightPromises,
                 connVars, toolTask, microtasks, insertLog, dispatchCount, aiLog>>

\* ------------------------------------------------- the Availability Resolver

\* slotFinder.ts.  Instants are minutes of local time in input.timezone,
\* counted from the midnight that starts day 0; the timezone keeps one offset
\* (the default, America/Phoenix, has no daylight saving), so a local day is
\* MinutesPerDay minutes.
MinutesPerDay == 1440

At(day, hour, minute) == day * MinutesPerDay + hour * 60 + minute

\* dayjs(t).tz(zone).startOf("day")
StartOfDay(t) == (t \div MinutesPerDay) * MinutesPerDay

\* input.businessStartHour ?? 9, input.businessEndHour ?? 17
BusinessStartHour(input) == Coalesce(input.businessStartHour, 9)
BusinessEndHour(input) == Coalesce(input.businessEndHour, 17)

\* busyIntervals.map(...): each interval widened by the buffer on both sides
expandedBusy_noBuffer(input) == input.busyIntervals

expandedBusy(input) ==
  {[start |-> interval.start - input.bufferMinutes,
    end |-> interval.end + input.bufferMinutes] : interval \in input.busyIntervals}

isSlotBusy(start, duration, expanded) ==
  LET slotStart == start
      slotEnd == slotStart + duration
  IN \E interval \in expanded : slotStart < interval.end /\ slotEnd > interval.start

\* The bounds of one day's scan: business hours, clipped to the morning or the
\* afternoon and, on the window's first and last day, to the window.
DayStart(input, day) ==
  LET dayStart == IF input.timePreference.type = "afternoon"
                  THEN day + 12 * 60 ELSE day + BusinessStartHour(input) * 60
  IN IF dayStart < input.windowStart /\ day = StartOfDay(input.windowStart)
     THEN input.windowStart ELSE dayStart

DayEnd(input, day) ==
  LET dayEnd == IF input.timePreference.type = "morning"
                THEN day + 12 * 60 ELSE day + BusinessEndHour(input) * 60
  IN IF dayEnd > input.windowEnd /\ day = StartOfDay(input.windowEnd)
     THEN input.windowEnd ELSE dayEnd

\* slots.length >= 2: the scan returns
SlotsFull_never(slots) == FALSE

SlotsFull(slots) == Len(slots) >= 2

\* cursor.add(15, "minute")
NextCursor_10(cursor) == cursor + 10

NextCursor(cursor) == cursor + 15

\* The inner loop over one day from `cursor`: <<slots, returned>>, returned
\* when the function returns from inside the loop.
RECURSIVE ScanDay(_, _, _, _)
ScanDay(input, cursor, dayEnd, slots) ==
  IF cursor + input.durationMinutes > dayEnd THEN <<slots, FALSE>>
  ELSE IF ~isSlotBusy(cursor, input.durationMinutes, expandedBusy(input))
       THEN LET pushed == Append(slots, cursor)
            IN IF SlotsFull(pushed) THEN <<pushed, TRUE>>
               ELSE ScanDay(input, NextCursor(cursor), dayEnd, pushed)
       ELSE ScanDay(input, NextCursor(cursor), dayEnd, slots)

\* The outer loop over the days from `day` to the day of windowEnd.
RECURSIVE ScanDays(_, _, _)
ScanDays(input, day, slots) ==
  IF day > StartOfDay(input.windowEnd) THEN slots
  ELSE
    LET dayStart == DayStart(input, day)
        dayEnd == DayEnd(input, day)
        next == day + MinutesPerDay
    IN IF dayEnd - dayStart < input.durationMinutes
       THEN ScanDays(input, next, slots)
       ELSE IF input.timePreference.type = "specific"
       THEN LET specificStart ==
                  day + input.timePreference.hour * 60 + input.timePreference.minute
            IN IF specificStart < dayStart
                  \/ specificStart + input.durationMinutes > dayEnd
               THEN ScanDays(input, next, slots)
               ELSE IF ~isSlotBusy(specificStart, input.durationMinutes,
                                   expandedBusy(input))
               THEN Append(slots, specificStart)
               ELSE slots
       ELSE LET scanned == ScanDay(input, dayStart, dayEnd, slots)
            IN IF scanned[2] THEN scanned[1]
               ELSE ScanDays(input, next, scanned[1])

findAvailableSlots(input) == ScanDays(input, StartOfDay(input.windowStart), <<>>)

\* A caller calls findAvailableSlots with the input drawn at the start.
FindAvailableSlots ==
  /\ ~finder.called
  /\ finder' = [finder EXCEPT !.called = TRUE, !.slots = findAvailableSlots(finder.input)]
  /\ UNCHANGED <<processEnv, scope, coach, clock, idempotencyCache, inflightPromises,
                 sentPostCallSummaries, connVars, taskVars, obsVars>>
\* ---------------------------------------------------------- the coach calls

\* coachDb.ts, coachScheduler.ts, routes/twilio.ts.  Instants are minutes of
\* local time as in the Availability Resolver; every user lives in one
\* timezone.
CoachUserIds == {1, 2}
\* last_called_at of a user never called (null)
NeverCalled == 0 - 1
\* req.body.CallSid when the request has none (undefined); the call sids are
\* 1, 2, ...
NoSid == 0
\* userId when the query has none, "0" or no number: undefined, 0 and NaN
\* are all falsy
NoUserId == 0

Abs(n) == IF n < 0 THEN -n ELSE n
HourOf(t) == (t % MinutesPerDay) \div 60
MinuteOf(t) == t % 60

\* nowUtc.diff(lastCall, "hour"): whole hours
DiffHours(later, earlier) == (later - earlier) \div 60

isUserDue(user, nowUtc) ==
  LET hourMatches == HourOf(nowUtc) = user.preferred_call_hour_local
      minuteDiff == Abs(MinuteOf(nowUtc) - user.preferred_call_minute_local)
      minuteMatches == minuteDiff <= MATCH_WINDOW_MINUTES
  IN IF ~hourMatches \/ ~minuteMatches THEN FALSE
     ELSE IF user.last_called_at # NeverCalled
             /\ DiffHours(nowUtc, user.last_called_at) < MIN_HOURS_BETWEEN_CALLS
     THEN FALSE
     ELSE TRUE

\* SELECT * FROM users WHERE is_active = 1: the rows, by id
RECURSIVE RowsFrom(_, _)
RowsFrom(users, id) ==
  IF id \notin DOMAIN users THEN <<>>
  ELSE (IF users[id].is_active = 1 THEN <<users[id]>> ELSE <<>>)
       \o RowsFrom(users, id + 1)

listActiveUsers_all(users) == [i \in 1 .. Cardinality(DOMAIN users) |-> users[i]]

listActiveUsers(users) == RowsFrom(users, 1)

\* UPDATE users SET is_active = 0 WHERE id = ?: no row, no change
setUserInactiveById(users, uid) ==
  IF uid \in DOMAIN users THEN [users EXCEPT ![uid].is_active = 0] ELSE users

updateLastCalled(users, uid, now) ==
  IF uid \in DOMAIN users THEN [users EXCEPT ![uid].last_called_at = now] ELSE users

\* upsertUser for the phone of an existing user: is_active = 1 again
upsertUser(users, uid) == [users EXCEPT ![uid].is_active = 1]

\* updateCallLogBySid: the latest log with this call_sid
updateCallLogBySid(logs, sid, outcome) ==
  LET matching == {i \in DOMAIN logs : logs[i].call_sid = sid}
  IN IF matching = {} THEN logs
     ELSE LET latest == CHOOSE i \in matching : \A j \in matching : j <= i
          IN [logs EXCEPT ![latest].outcome = Coalesce(outcome, @)]

\* the for loop of processDueUsers skips the users that are not due
RECURSIVE SkipNotDue(_, _)
SkipNotDue(users, nowUtc) ==
  IF users = <<>> THEN <<>>
  ELSE IF isUserDue(Head(users), nowUtc) THEN users
  ELSE SkipNotDue(Tail(users), nowUtc)

NoRun == [users |-> <<>>, nowUtc |-> 0, reported |-> {}]

\* processDueUsers from the top of its loop with `users` left to visit: it
\* awaits placeCoachCall for the first due user, or returns and run()'s
\* finally clears isRunning.
ProcessFrom(c, users, nowUtc, reported) ==
  LET left == SkipNotDue(users, nowUtc)
  IN IF left = <<>>
     THEN [c EXCEPT !.isRunning = FALSE, !.run = NoRun, !.active = @ - 1]
     ELSE [c EXCEPT !.run = [users |-> left, nowUtc |-> nowUtc, reported |-> reported]]

\* run(), at start-up and on every setInterval tick: nothing while a run is
\* in progress.  `reported` remembers the users whose block was reported
\* before this run took its list of users.
\* `active` counts the calls of processDueUsers that have not returned.
schedulerRun_unguarded(c) ==
  ProcessFrom([c EXCEPT !.isRunning = TRUE, !.active = @ + 1],
              listActiveUsers(c.users), c.now, c.blocked)
\* coachScheduler.ts run (lines 77-85)
schedulerRun(c) ==
  IF c.isRunning THEN c
  ELSE ProcessFrom([c EXCEPT !.isRunning = TRUE, !.active = @ + 1],
                   listActiveUsers(c.users), c.now, c.blocked)

SchedulerTick ==
  /\ coach.started
  /\ coach' = schedulerRun(coach)
  /\ UNCHANGED <<processEnv, scope, finder, clock, idempotencyCache, inflightPromises,
                 sentPostCallSummaries, connVars, taskVars, obsVars>>

\* placeCoachCall settles: on success createCallLog and updateLastCalled, on
\* failure the catch logs; the loop goes on with the next user of its list.
PlaceCoachCallSettles(ok) ==
  /\ coach.started /\ coach.isRunning /\ coach.run.users # <<>>
  /\ ok => Len(coach.callLogs) < MaxCoachCalls
  /\ LET user == Head(coach.run.users)
         done == IF ok
                 THEN [coach EXCEPT
                         !.callLogs = Append(@, [user_id |-> user.id,
                                                 call_sid |-> Len(@) + 1,
                                                 outcome |-> "initiated",
                                                 created_at |-> coach.now]),
                         !.users = updateLastCalled(@, user.id, coach.now)]
                 ELSE coach
     IN coach' = ProcessFrom(done, Tail(coach.run.users), coach.run.nowUtc,
                             coach.run.reported)
  /\ UNCHANGED <<processEnv, scope, finder, clock, idempotencyCache, inflightPromises,
                 sentPostCallSummaries, connVars, taskVars, obsVars>>

\* callStatus -> the outcome written to the call log, NULL for none
StatusOutcome(callStatus) ==
  CASE callStatus = "answered" -> "answered"
    [] callStatus \in {"busy", "no-answer"} -> "no_answer"
    [] callStatus \in {"failed", "canceled"} -> "failed"
    [] OTHER -> NULL

\* callStatus === "blocked" && userId
Deactivates(callStatus, uid) == callStatus = "blocked" /\ uid # NoUserId

\* POST /twilio/coach/status
CoachStatus(sid, callStatus, uid) ==
  /\ coach.started
  /\ coach' = [coach EXCEPT
       !.callLogs = IF sid # NoSid /\ callStatus # NULL
                    THEN updateCallLogBySid(@, sid, StatusOutcome(callStatus))
                    ELSE @,
       !.users = IF Deactivates(callStatus, uid)
                 THEN setUserInactiveById(@, uid) ELSE @,
       !.blocked = IF callStatus = "blocked" /\ uid \in DOMAIN coach.users
                   THEN @ \cup {uid} ELSE @]
  /\ UNCHANGED <<processEnv, scope, finder, clock, idempotencyCache, inflightPromises,
                 sentPostCallSummaries, connVars, taskVars, obsVars>>

\* POST /coach/signup for a phone that is signed up already (the call the
\* route places right away is left out: it is no scheduler call)
CoachSignup(uid) ==
  /\ coach.started
  /\ uid \in DOMAIN coach.users
  /\ coach' = [coach EXCEPT !.users = upsertUser(@, uid), !.blocked = @ \ {uid}]
  /\ UNCHANGED <<processEnv, scope, finder, clock, idempotencyCache, inflightPromises,
                 sentPostCallSummaries, connVars, taskVars, obsVars>>

\* Time passes: a minute, around the preferred call time, or the rest of the
\* day up to the minute before it.
CoachTimePasses ==
  /\ coach.started
  /\ \E later \in {coach.now + 1, StartOfDay(coach.now) + MinutesPerDay + 8 * 60 + 59} :
        /\ later < MaxCoachDays * MinutesPerDay
        /\ later - StartOfDay(later) <= 9 * 60 + 2
        /\ coach' = [coach EXCEPT !.now = later]
  /\ UNCHANGED <<processEnv, scope, finder, clock, idempotencyCache, inflightPromises,
                 sentPostCallSummaries, connVars, taskVars, obsVars>>
\* ------------------------------------------------------------ specifications

\* The tool-call events the AI can send for identifier id on connection c:
\* <<name, argument shape, startISO/endISO>>.  handleToolCall reads the name
\* and the arguments only of an identifier that is neither processed nor in
\* flight, and the arguments' dates only of a complete payload; one
\* representative stands for the payloads it does not read.
ToolCalls(c, id) ==
  IF id \notin scope.ids THEN {}
  ELSE IF IsProcessed(Session(c), id) \/ IsInflight(Session(c), id)
  THEN {<<"other_tool", "valid", "rA">>}
  ELSE {call \in scope.tools \X scope.shapes \X scope.isos :
           call[2] = "valid" \/ call[3] = "rA"}

\* process.env of a deployment: the calendar credentials, dry run, the SMS flags
Env(dryRun, calendarId, oauth, sms, owner, toCaller) ==
  [BOOKING_DRY_RUN |-> dryRun, GOOGLE_CALENDAR_ID |-> calendarId,
   GOOGLE_OAUTH |-> oauth, ENABLE_POST_CALL_SMS |-> sms,
   BUSINESS_OWNER_PHONE |-> owner, SEND_SUMMARY_TO_CALLER |-> toCaller]

\* every combination of the booking settings, SMS switched off
BookingEnvs ==
  {Env(d, k, o, FALSE, FALSE, FALSE) : d \in BOOLEAN, k \in BOOLEAN, o \in BOOLEAN}

StartMsg(stream, call, m, from) ==
  [streamSid |-> stream, callSid |-> call, mode |-> m, from |-> from, userId |-> 0]

\* the deployment with a configured calendar, not in dry run, SMS switched off
LiveEnv == Env(FALSE, TRUE, TRUE, FALSE, FALSE, FALSE)

\* --- Tool dispatch: one receptionist call, every tool and argument shape,
\* --- two tool-call identifiers delivered any number of times, between the
\* --- AI's turns of speech.
ToolsScope ==
  [conns |-> {"w1"}, ids |-> {"t1", "t2"}, tools |-> ToolNames,
   shapes |-> {"unparsable", "null", "incomplete", "valid"}, isos |-> {"rA", "bad"},
   starts |-> {StartMsg("MZ1", "CA1", "receptionist", "+15551230000")},
   stopSids |-> {NULL}, outcomes |-> {"ok", "noid", "rate", "auth", "fail"},
   opOutcomes |-> OpOutcomes, maxInserts |-> MaxInserts,
   texts |-> {"claim"}, maxClock |-> 0, logged |-> {"toolOutput"}]

InitTools == InitWith(BookingEnvs, ToolsScope)

NextTools ==
  \/ \E c \in Conns, p \in ToolsScope.starts : Start(c, p)
  \/ \E c \in Conns : AiOpen(c)
  \/ \E c \in Conns : Stop(c, NULL)
  \/ \E c \in Conns, id \in ToolCallIds : \E call \in ToolCalls(c, id) :
       HandleToolCall(c, id, call[1], call[2], call[3])
  \/ \E c \in Conns, id \in ToolCallIds, outcome \in InsertOutcomes :
       InsertResponse(c, id, outcome)
  \/ ResumeToolCall
  \/ \E c \in Conns, id \in ToolCallIds, outcome \in OpOutcomes :
       OpComplete(c, id, outcome)
  \/ \E c \in Conns, kind \in ToolsScope.texts : TextDelta(c, kind)
  \/ \E c \in Conns : TextDone(c)

SpecTools == InitTools /\ [][NextTools]_vars

\* every Booking Operation terminates: the remote calendar (or the HTTP
\* client's error) answers each request, and a settled promise's continuations
\* run
ToolFairness ==
  /\ WF_vars(\E c \in Conns, id \in ToolCallIds, outcome \in InsertOutcomes :
               InsertResponse(c, id, outcome))
  /\ WF_vars(ResumeToolCall)
  /\ WF_vars(\E c \in Conns, id \in ToolCallIds, outcome \in OpOutcomes :
               OpComplete(c, id, outcome))

\* --- Tool calls to their end: one receptionist call under every booking
\* --- setting, every tool, unparsable, incomplete and valid arguments, remote
\* --- answers that succeed or fail, every Booking Operation terminating.
LiveScope ==
  [conns |-> {"w1"}, ids |-> {"t1", "t2"}, tools |-> ToolNames,
   shapes |-> {"unparsable", "incomplete", "valid"}, isos |-> {"rA"},
   starts |-> {StartMsg("MZ1", "CA1", "receptionist", "+15551230000")},
   stopSids |-> {NULL}, outcomes |-> {"ok", "fail"},
   opOutcomes |-> {"ok", "booking_error"}, maxInserts |-> MaxInserts,
   texts |-> {}, maxClock |-> 0, logged |-> {"toolOutput", "filler"}]

InitToolsLive == InitWith(BookingEnvs, LiveScope)

NextToolsLive ==
  \/ \E c \in Conns, p \in LiveScope.starts : Start(c, p)
  \/ \E c \in Conns : AiOpen(c)
  \/ \E c \in Conns : Stop(c, NULL)
  \/ \E c \in Conns, id \in ToolCallIds : \E call \in ToolCalls(c, id) :
       HandleToolCall(c, id, call[1], call[2], call[3])
  \/ \E c \in Conns, id \in ToolCallIds, outcome \in InsertOutcomes :
       InsertResponse(c, id, outcome)
  \/ ResumeToolCall
  \/ \E c \in Conns, id \in ToolCallIds, outcome \in OpOutcomes :
       OpComplete(c, id, outcome)

SpecToolsLive == InitToolsLive /\ [][NextToolsLive]_vars /\ ToolFairness

\* --- Duplicate deliveries: the same calls on a configured calendar, with the
\* --- events dropped and the replies sent counted per identifier.
DuplicatesScope == [LiveScope EXCEPT !.logged = {"toolOutput", "replies"}]

InitDuplicates == InitWith({LiveEnv}, DuplicatesScope)

SpecDuplicates == InitDuplicates /\ [][NextToolsLive]_vars

\* --- Sends on the AI socket: one receptionist call with audio frames, a
\* --- create call, booking claims in the AI's speech, the AI
\* --- socket opening and closing and the stream stopping at any time; every
\* --- kind of message is counted, and so is a send on a socket that is not
\* --- open.
SendsScope ==
  [conns |-> {"w1"}, ids |-> {"t1"},
   tools |-> {"booking_create_appointment"}, shapes |-> {"valid"},
   isos |-> {"rA"},
   starts |-> {StartMsg("MZ1", "CA1", "receptionist", "+15551230000")},
   stopSids |-> {NULL}, outcomes |-> {"ok", "fail"},
   opOutcomes |-> {}, maxInserts |-> MaxInserts,
   texts |-> {"claim"}, maxClock |-> 0,
   logged |-> {"greeting", "filler", "toolOutput", "failure", "commit", "unopened"}]

InitSends == InitWith({LiveEnv}, SendsScope)

NextSends ==
  \/ \E c \in Conns, p \in SendsScope.starts : Start(c, p)
  \/ \E c \in Conns : AiOpen(c)
  \/ \E c \in Conns : AiClosed(c)
  \/ \E c \in Conns : Media(c, "p1")
  \/ \E c \in Conns : Stop(c, NULL)
  \/ \E c \in Conns : TwilioClose(c)
  \/ \E c \in Conns, id \in ToolCallIds : \E call \in ToolCalls(c, id) :
       HandleToolCall(c, id, call[1], call[2], call[3])
  \/ \E c \in Conns, id \in ToolCallIds, outcome \in InsertOutcomes :
       InsertResponse(c, id, outcome)
  \/ ResumeToolCall
  \/ \E c \in Conns, kind \in SendsScope.texts : TextDelta(c, kind)
  \/ \E c \in Conns : TextDone(c)

SpecSends == InitSends /\ [][NextSends]_vars

\* --- Two sessions: two media-stream connections, each carrying one call
\* --- (the same call identifier or two different ones), each asking under
\* --- two tool-call identifiers for the same appointment, the calendar
\* --- answering ok or failing.
SessionsScope ==
  [conns |-> {"w1", "w2"}, ids |-> {"t1", "t2"},
   tools |-> {"booking_create_appointment"}, shapes |-> {"valid"}, isos |-> {"rA"},
   starts |-> {StartMsg("MZ1", "CA1", "receptionist", "+15551230000"),
               StartMsg("MZ2", "CA2", "receptionist", "+15551230000")},
   stopSids |-> {NULL}, outcomes |-> {"ok", "fail"}, opOutcomes |-> {},
   maxInserts |-> MaxSessionInserts, texts |-> {}, maxClock |-> 0, logged |-> {}]

InitSessions == InitWith({LiveEnv}, SessionsScope)

NextSessions ==
  \/ \E c \in Conns, p \in SessionsScope.starts :
       callSid[c] \in {NULL, p.callSid} /\ Start(c, p)
  \/ \E c \in Conns : AiOpen(c)
  \/ \E c \in Conns, id \in ToolCallIds : \E call \in ToolCalls(c, id) :
       HandleToolCall(c, id, call[1], call[2], call[3])
  \/ \E c \in Conns, id \in ToolCallIds, outcome \in InsertOutcomes :
       InsertResponse(c, id, outcome)
  \/ ResumeToolCall

SpecSessions == InitSessions /\ [][NextSessions]_vars

\* --- Booking errors: the same calls with well-formed and malformed start
\* --- times, the calendar answering with success, an authentication error or
\* --- another failure, and the error each Booking Operation rejects with
\* --- recorded.
ErrorsScope ==
  [LiveScope EXCEPT !.shapes = {"incomplete", "valid"}, !.isos = {"rA", "bad"},
                    !.outcomes = {"ok", "auth", "fail"}, !.opOutcomes = OpOutcomes,
                    !.logged = {"toolOutput", "errors"}]

InitErrors == InitWith(BookingEnvs, ErrorsScope)

SpecErrors == InitErrors /\ [][NextToolsLive]_vars


\* --- Duplicate bookings: one receptionist call in which the AI asks three
\* --- times, under three identifiers, for the same appointment while minutes
\* --- pass and the remote insert succeeds or fails.
DedupeScope ==
  [conns |-> {"w1"}, ids |-> {"t1", "t2", "t3"},
   tools |-> {"booking_create_appointment"}, shapes |-> {"valid"}, isos |-> {"rA"},
   starts |-> {StartMsg("MZ1", "CA1", "receptionist", "+15551230000")},
   stopSids |-> {NULL}, outcomes |-> {"ok", "fail"}, opOutcomes |-> {}, maxInserts |-> MaxInserts,
   texts |-> {}, maxClock |-> MaxClock, logged |-> {}]

InitDedupe == InitWith({LiveEnv}, DedupeScope)

NextDedupe ==
  \/ \E c \in Conns, p \in DedupeScope.starts : Start(c, p)
  \/ \E c \in Conns : AiOpen(c)
  \/ \E c \in Conns, id \in ToolCallIds : \E call \in ToolCalls(c, id) :
       HandleToolCall(c, id, call[1], call[2], call[3])
  \/ \E c \in Conns, id \in ToolCallIds, outcome \in InsertOutcomes :
       InsertResponse(c, id, outcome)
  \/ ResumeToolCall
  \/ Tick

SpecDedupe == InitDedupe /\ [][NextDedupe]_vars
\* the same deployment in dry run
DryRunEnv == Env(TRUE, TRUE, TRUE, FALSE, FALSE, FALSE)

\* --- Booking claims: one receptionist call, live or in dry run, in which the
\* --- AI's turns of speech (claiming a booking or not) interleave with two
\* --- create calls that are confirmed, unconfirmed or fail.
ClaimsScope ==
  [conns |-> {"w1"}, ids |-> {"t1", "t2"},
   tools |-> {"booking_create_appointment"}, shapes |-> {"valid"},
   isos |-> {"rA", "bad"},
   starts |-> {StartMsg("MZ1", "CA1", "receptionist", "+15551230000")},
   stopSids |-> {NULL}, outcomes |-> {"ok", "fail"}, opOutcomes |-> {}, maxInserts |-> MaxInserts,
   texts |-> {"claim", "plain"}, maxClock |-> 0, logged |-> {"claims", "failure"}]

InitClaims == InitWith({LiveEnv, DryRunEnv}, ClaimsScope)

NextClaims ==
  \/ \E c \in Conns, p \in ClaimsScope.starts : Start(c, p)
  \/ \E c \in Conns : AiOpen(c)
  \/ \E c \in Conns : Stop(c, NULL)
  \/ \E c \in Conns, id \in ToolCallIds : \E call \in ToolCalls(c, id) :
       HandleToolCall(c, id, call[1], call[2], call[3])
  \/ \E c \in Conns, id \in ToolCallIds, outcome \in InsertOutcomes :
       InsertResponse(c, id, outcome)
  \/ ResumeToolCall
  \/ \E c \in Conns, kind \in ClaimsScope.texts : TextDelta(c, kind)
  \/ \E c \in Conns : TextDone(c)

SpecClaims == InitClaims /\ [][NextClaims]_vars
\* the deployments that differ in the post-call SMS settings
SmsEnvs ==
  {Env(FALSE, TRUE, TRUE, sms, owner, toCaller) :
     sms \in BOOLEAN, owner \in BOOLEAN, toCaller \in BOOLEAN}

\* --- Call lifecycle: a media-stream connection that is sent stream-start
\* --- (for one call or another) and stream-stop any number of times, in any
\* --- order, while its AI socket opens and closes and the post-call SMS sends
\* --- settle.
LifecycleScope ==
  [conns |-> {"w1"}, ids |-> {}, tools |-> {}, shapes |-> {}, isos |-> {},
   starts |-> {StartMsg("MZ1", "CA1", "receptionist", "+15551230000"),
               StartMsg("MZ1", "CA2", "receptionist", "anonymous")},
   stopSids |-> {NULL, "CA1"}, outcomes |-> {}, opOutcomes |-> {}, maxInserts |-> MaxInserts,
   texts |-> {}, maxClock |-> 0, logged |-> {"greeting"}]

InitLifecycle == InitWith(SmsEnvs, LifecycleScope)

NextLifecycle ==
  \/ \E c \in Conns, p \in LifecycleScope.starts : Start(c, p)
  \/ \E c \in Conns : AiOpen(c)
  \/ \E c \in Conns : AiClosed(c)
  \/ \E c \in Conns, sid \in LifecycleScope.stopSids : Stop(c, sid)
  \/ \E c \in Conns : TwilioClose(c)
  \/ \E c \in Conns, i \in 1..MaxSmsTasks : SmsSettled(c, i)

SpecLifecycle == InitLifecycle /\ [][NextLifecycle]_vars

\* --- Post-call summaries: one receptionist call with SMS switched on, whose
\* --- stream stops while a create or cancel call is still being worked on, so
\* --- that the call's summary changes while the owner's SMS is being sent.
SummariesScope ==
  [conns |-> {"w1"}, ids |-> {"t1", "t2"},
   tools |-> {"booking_create_appointment", "cancel_event"},
   shapes |-> {"valid"}, isos |-> {"rA"},
   starts |-> {StartMsg("MZ1", "CA1", "receptionist", "+15551230000")},
   stopSids |-> {NULL}, outcomes |-> {"ok", "fail"},
   opOutcomes |-> {"ok", "booking_error"}, maxInserts |-> MaxInserts,
   texts |-> {}, maxClock |-> 0, logged |-> {"sms"}]

InitSummaries ==
  InitWith({Env(FALSE, TRUE, TRUE, TRUE, owner, TRUE) : owner \in BOOLEAN},
           SummariesScope)

NextSummaries ==
  \/ \E c \in Conns, p \in SummariesScope.starts : Start(c, p)
  \/ \E c \in Conns : AiOpen(c)
  \/ \E c \in Conns : Stop(c, NULL)
  \/ \E c \in Conns, id \in ToolCallIds : \E call \in ToolCalls(c, id) :
       HandleToolCall(c, id, call[1], call[2], call[3])
  \/ \E c \in Conns, id \in ToolCallIds, outcome \in InsertOutcomes :
       InsertResponse(c, id, outcome)
  \/ ResumeToolCall
  \/ \E c \in Conns, id \in ToolCallIds, outcome \in SummariesScope.opOutcomes :
       OpComplete(c, id, outcome)
  \/ \E c \in Conns, i \in 1..MaxSmsTasks : SmsSettled(c, i)

SpecSummaries == InitSummaries /\ [][NextSummaries]_vars
\* --- Audio relay, transport to AI: a media-stream connection on which media
\* --- frames arrive before, while and after its AI socket is open, and either
\* --- socket closes with or without a stream-stop.
RelayScope ==
  [conns |-> {"w1"}, ids |-> {}, tools |-> {}, shapes |-> {}, isos |-> {},
   starts |-> {StartMsg("MZ1", "CA1", "receptionist", "+15551230000")},
   stopSids |-> {NULL}, outcomes |-> {}, opOutcomes |-> {}, maxInserts |-> MaxInserts,
   texts |-> {}, maxClock |-> 0, logged |-> {"commit", "finalized"}]

InitRelay == InitWith({LiveEnv}, RelayScope)

NextRelay ==
  \/ \E c \in Conns, p \in RelayScope.starts : Start(c, p)
  \/ \E c \in Conns : AiOpen(c)
  \/ \E c \in Conns : AiClosed(c)
  \/ \E c \in Conns, payload \in AudioPayloads \cup {NULL} : Media(c, payload)
  \/ \E c \in Conns : Stop(c, NULL)
  \/ \E c \in Conns : TwilioClose(c)

SpecRelay == InitRelay /\ [][NextRelay]_vars

\* --- Audio relay, AI to transport: a media-stream connection whose
\* --- stream-start may lack the stream identifier or name another stream and
\* --- another mode, while audio deltas arrive from the AI.
DeltaScope ==
  [conns |-> {"w1"}, ids |-> {}, tools |-> {}, shapes |-> {}, isos |-> {},
   starts |-> {StartMsg(NULL, "CA1", "receptionist", "+15551230000"),
               StartMsg("MZ1", "CA1", "receptionist", "+15551230000"),
               StartMsg("MZ2", "CA1", "spanish_coach", "+15551230000")},
   stopSids |-> {NULL}, outcomes |-> {}, opOutcomes |-> {}, maxInserts |-> MaxInserts,
   texts |-> {}, maxClock |-> 0, logged |-> {}]

InitDelta == InitWith({LiveEnv}, DeltaScope)

NextDelta ==
  \/ \E c \in Conns, p \in DeltaScope.starts : Start(c, p)
  \/ \E c \in Conns : AiOpen(c)
  \/ \E c \in Conns : AiClosed(c)
  \/ \E c \in Conns, payload \in AudioPayloads : AudioDelta(c, payload)
  \/ \E c \in Conns : Stop(c, NULL)
  \/ \E c \in Conns : TwilioClose(c)

SpecDelta == InitDelta /\ [][NextDelta]_vars
\* --- Retries: one receptionist call in which each of the five calendar tools
\* --- is called once or twice and the remote calendar answers every request
\* --- with a success, a rate limit or another error.
RetryScope ==
  [conns |-> {"w1"}, ids |-> {"t1", "t2"},
   tools |-> ToolNames \ {"other_tool"}, shapes |-> {"valid"}, isos |-> {"rA"},
   starts |-> {StartMsg("MZ1", "CA1", "receptionist", "+15551230000")},
   stopSids |-> {NULL},
   outcomes |-> {"ok", "rate", "rate403", "forbidden", "fail"},
   opOutcomes |-> {"ok", "booking_error"}, maxInserts |-> MaxRetryInserts,
   texts |-> {}, maxClock |-> 0, logged |-> {}]

InitRetry == InitWith({LiveEnv}, RetryScope)

NextRetry ==
  \/ \E c \in Conns, p \in RetryScope.starts : Start(c, p)
  \/ \E c \in Conns : AiOpen(c)
  \/ \E c \in Conns, id \in ToolCallIds : \E call \in ToolCalls(c, id) :
       HandleToolCall(c, id, call[1], call[2], call[3])
  \/ \E c \in Conns, id \in ToolCallIds, outcome \in InsertOutcomes :
       InsertResponse(c, id, outcome)
  \/ ResumeToolCall
  \/ \E c \in Conns, id \in ToolCallIds, outcome \in OpOutcomes :
       OpComplete(c, id, outcome)
  \/ \E c \in Conns, id \in ToolCallIds, outcome \in InsertOutcomes :
       OpRateLimited(c, id, outcome)

\* every remote request is answered in the end (by the calendar or by the
\* HTTP client's error), withCalendarRetry's delays run out, and a settled
\* promise's continuations run
RetryFairness ==
  /\ WF_vars(\E c \in Conns, id \in ToolCallIds, outcome \in InsertOutcomes :
               InsertResponse(c, id, outcome))
  /\ WF_vars(ResumeToolCall)

SpecRetry == InitRetry /\ [][NextRetry]_vars /\ RetryFairness
\* --- The Availability Resolver: one findAvailableSlots call for every window
\* --- of up to MaxDays days, every time preference, and up to MaxBusy busy
\* --- intervals among: a short meeting, a day booked up to its last slot, a
\* --- booked afternoon.
SlotsScope ==
  [conns |-> {}, ids |-> {}, tools |-> {}, shapes |-> {}, isos |-> {},
   starts |-> {}, stopSids |-> {}, outcomes |-> {}, opOutcomes |-> {},
   maxInserts |-> 0, texts |-> {}, maxClock |-> 0, logged |-> {}]

SlotDays == 0 .. (MaxDays - 1)

WindowBounds ==
  {At(d, hm[1], hm[2]) : d \in SlotDays, hm \in {<<0, 0>>, <<9, 0>>, <<11, 40>>, <<17, 0>>}}

BusyChoices ==
  {[start |-> At(d, b[1], b[2]), end |-> At(d, b[3], b[4])] :
     d \in SlotDays,
     b \in {<<10, 0, 10, 30>>, <<9, 0, 16, 20>>, <<12, 0, 17, 0>>}}

TimePreferences ==
  {[type |-> "morning"], [type |-> "afternoon"], [type |-> "any"],
   [type |-> "specific", hour |-> 9, minute |-> 50],
   [type |-> "specific", hour |-> 10, minute |-> 40]}

SlotFinderInputs ==
  [busyIntervals : {b \in SUBSET BusyChoices : Cardinality(b) <= MaxBusy},
   windowStart : WindowBounds, windowEnd : WindowBounds,
   durationMinutes : {30, 60}, bufferMinutes : {0, 10},
   timePreference : TimePreferences,
   businessStartHour : {NULL}, businessEndHour : {NULL}]

InitSlots ==
  /\ InitBridge({LiveEnv}, SlotsScope)
  /\ \E input \in SlotFinderInputs :
        /\ input.windowStart <= input.windowEnd
        /\ finder = [called |-> FALSE, input |-> input, slots |-> <<>>]
  /\ coach = NoCoach

NextSlots == FindAvailableSlots

SpecSlots == InitSlots /\ [][NextSlots]_vars
\* --- The coach calls: two users signed up for a call at 9:00, the scheduler
\* --- ticking over MaxCoachDays days, status callbacks about the latest call
\* --- (or none) for every user, a user signing up again.
CoachUser(id) ==
  [id |-> id, is_active |-> 1, last_called_at |-> NeverCalled,
   preferred_call_hour_local |-> 9, preferred_call_minute_local |-> 0]

CallStatuses == {"blocked", "no-answer"}

InitCoach ==
  /\ InitBridge({LiveEnv}, SlotsScope)
  /\ finder = NoFinderCall
  /\ coach = [started |-> TRUE, now |-> At(0, 8, 59),
              users |-> [id \in CoachUserIds |-> CoachUser(id)],
              callLogs |-> <<>>, isRunning |-> FALSE, active |-> 0,
              run |-> NoRun, blocked |-> {}]

NextCoach ==
  \/ SchedulerTick
  \/ \E ok \in BOOLEAN : PlaceCoachCallSettles(ok)
  \/ \E sid \in {NoSid, Len(coach.callLogs)}, callStatus \in CallStatuses,
        uid \in CoachUserIds \cup {NoUserId} :
          CoachStatus(sid, callStatus, uid)
  \/ \E uid \in CoachUserIds : CoachSignup(uid)
  \/ CoachTimePasses

SpecCoach == InitCoach /\ [][NextCoach]_vars
\* --- Coaching score: a spanish_coach call (with and without a call sid and a
\* --- user id in its stream-start) in which the assistant speaks marker
\* --- phrases and the learner answers, until stream-stop.
CoachStartMsg(stream, call, uid) ==
  [StartMsg(stream, call, "spanish_coach", "+15551230000") EXCEPT !.userId = uid]

ScoreScope ==
  [conns |-> {"w1"}, ids |-> {}, tools |-> {}, shapes |-> {}, isos |-> {},
   starts |-> {CoachStartMsg("MZ2", "CA1", 1), CoachStartMsg("MZ2", NULL, 0)},
   stopSids |-> {NULL, "CA1"}, outcomes |-> {}, opOutcomes |-> {},
   maxInserts |-> 0, texts |-> {"simplified", "simplified_optout", "repeat"},
   maxClock |-> 0, logged |-> {"score"}]

InitScore == InitWith({LiveEnv}, ScoreScope)

NextScore ==
  \/ \E c \in Conns, p \in ScoreScope.starts : Start(c, p)
  \/ \E c \in Conns : AiOpen(c)
  \/ \E c \in Conns, kind \in ScoreScope.texts : TextDelta(c, kind)
  \/ \E c \in Conns : TextDone(c)
  \/ \E c \in Conns, text \in Transcripts : Transcript(c, text)
  \/ \E c \in Conns, sid \in ScoreScope.stopSids : Stop(c, sid)

SpecScore == InitScore /\ [][NextScore]_vars

\* --- Coaching counters: one connection that is started as a receptionist
\* --- call or as a coaching call, possibly one after the other, while
\* --- transcripts arrive and the AI's texts are finalized.
CountersScope ==
  [conns |-> {"w1"}, ids |-> {}, tools |-> {}, shapes |-> {}, isos |-> {},
   starts |-> {StartMsg("MZ1", "CA1", "receptionist", "+15551230000"),
               CoachStartMsg("MZ2", "CA1", 1)},
   stopSids |-> {NULL}, outcomes |-> {}, opOutcomes |-> {},
   maxInserts |-> 0, texts |-> {"simplified", "simplified_optout", "repeat", "claim"},
   maxClock |-> 0, logged |-> {"modes"}]

InitCounters == InitWith({LiveEnv}, CountersScope)

NextCounters ==
  \/ \E c \in Conns, p \in CountersScope.starts : Start(c, p)
  \/ \E c \in Conns : AiOpen(c)
  \/ \E c \in Conns, kind \in CountersScope.texts : TextDelta(c, kind)
  \/ \E c \in Conns : TextDone(c)
  \/ \E c \in Conns, text \in Transcripts : Transcript(c, text)

SpecCounters == InitCounters /\ [][NextCounters]_vars
\* --- Greeting: a media-stream connection that is sent stream-start once or
\* --- several times before, while and after its AI socket opens, closes or
\* --- fails, and stream-stop.
GreetingScope ==
  [conns |-> {"w1", "w2"}, ids |-> {}, tools |-> {}, shapes |-> {}, isos |-> {},
   starts |-> {StartMsg("MZ1", "CA1", "receptionist", "+15551230000"),
               CoachStartMsg("MZ2", "CA2", 1)},
   stopSids |-> {NULL}, outcomes |-> {}, opOutcomes |-> {}, maxInserts |-> 0,
   texts |-> {}, maxClock |-> 0, logged |-> {"greeting", "starts"}]

InitGreeting == InitWith({LiveEnv}, GreetingScope)

NextGreeting ==
  \/ \E c \in Conns, p \in GreetingScope.starts : Start(c, p)
  \/ \E c \in Conns : AiOpen(c)
  \/ \E c \in Conns : AiClosed(c)
  \/ \E c \in Conns : Stop(c, NULL)
  \/ \E c \in Conns : TwilioClose(c)

SpecGreeting == InitGreeting /\ [][NextGreeting]_vars
\* ------------------------------------------------------------------- claims

\* A tool-call event carrying id arrives on connection c.
Delivery(c, id) ==
  \E call \in ToolCalls(c, id) : HandleToolCall(c, id, call[1], call[2], call[3])

\* C1: within one session every tool-call identifier is dispatched to the
\* booking operation layer at most once, whatever deliveries of it arrive and
\* however they interleave; a delivery that arrives after the identifier's
\* result was cached starts no booking operation, issues no remote insert and
\* touches nothing of the calendar gateway, and the reply it hands to the AI
\* connection (sent while that connection is open) is the cached result.
C1_DispatchedAtMostOnce ==
  [][\A c \in Conns, id \in ToolCallIds :
       /\ dispatchCount'[c][id] <= 1
       /\ (IsProcessed(Session(c), id) /\ Delivery(c, id)) =>
            /\ dispatchCount' = dispatchCount
            /\ toolTask' = toolTask
            /\ insertLog' = insertLog
            /\ idempotencyCache' = idempotencyCache
            /\ inflightPromises' = inflightPromises
            /\ processedToolCalls' = processedToolCalls
            /\ IsOpen(openaiWs[c]) =>
                 obs'.lastToolOutput[c] = <<id, processedToolCalls[c][id]>>]_vars

\* C1 witness: t1 was dispatched once, its result is cached, and the AI has
\* been sent that result twice although no other identifier was ever handled:
\* a repeated delivery was answered from the cache.
C1_Witness ==
  /\ dispatchCount["w1"]["t1"] = 1
  /\ dispatchCount["w1"]["t2"] = 0
  /\ processedToolCalls["w1"]["t1"] # NoResult
  /\ processedToolCalls["w1"]["t2"] = NoResult
  /\ "t2" \notin inflightToolCalls["w1"]
  /\ aiLog["w1"].toolOutput >= 2
  /\ obs.lastToolOutput["w1"] = <<"t1", processedToolCalls["w1"]["t1"]>>

\* Two remote insert calls for the same start and end, the later one issued
\* less than the dedupe window after the earlier one.
SameSlotInWindow(i, j) ==
  /\ i < j
  /\ insertLog[i].key = insertLog[j].key
  /\ insertLog[j].at - insertLog[i].at < appointmentDedupeWindowMs

\* C2 as stated: create calls for the same start and end, whatever their
\* identifiers, lead to at most one tool call's remote calendar insert within
\* the 2-minute window (the gateway's retries of one rate-limited insert are
\* counted as that one call).
C2_OneRemoteCreatePerWindow ==
  \A i, j \in DOMAIN insertLog :
    SameSlotInWindow(i, j) => insertLog[i].by = insertLog[j].by

\* C2 amended: as long as no gateway create call has waited for its remote
\* insert for more than 5 minutes (the gateway then prunes its in-flight
\* entry), a further remote insert for the same start and end is issued inside
\* the 2-minute window only after every earlier one has failed: never while
\* one is outstanding and never after one has returned.
C2_FurtherCreateOnlyAfterFailure ==
  ~obs.overdue =>
    \A i, j \in DOMAIN insertLog :
      SameSlotInWindow(i, j) => insertLog[i].status = "failed"

\* C2 witness: a create under one identifier failed remotely and the same
\* appointment, asked for under another identifier inside the window, was
\* inserted remotely again.
C2_Witness ==
  /\ ~obs.overdue
  /\ Len(insertLog) = 2
  /\ SameSlotInWindow(1, 2)
  /\ insertLog[1].by # insertLog[2].by
  /\ insertLog[1].status = "failed"
  /\ insertLog[2].status = "ok"

\* A create call with a complete payload arrives under an identifier that is
\* neither cached nor in flight.
CreateCall(c, id) ==
  /\ ~IsProcessed(Session(c), id)
  /\ ~IsInflight(Session(c), id)
  /\ HandleToolCall(c, id, "booking_create_appointment", "valid", "rA")

\* the session's dedupe entry and the gateway's entry a create call for "rA"
\* on connection c meets
RecentOf(c) == recentAppointments[c][buildAppointmentDedupeKey(c, "rA")]
CachedFor(c) == idempotencyCache[<<buildIdempotencySource(c), ToISOString("rA")>>]

\* C4 as stated: a create call that repeats a recorded create inside the
\* 2-minute window issues no remote insert, and one that repeats it after the
\* window has expired issues a new remote insert.
C4_NewCreateAfterWindow ==
  [][\A c \in Conns, id \in ToolCallIds :
       (CreateCall(c, id) /\ RecentOf(c) # NoEntry) =>
          IF clock - RecentOf(c).timestamp < appointmentDedupeWindowMs
          THEN insertLog' = insertLog
          ELSE Len(insertLog') = Len(insertLog) + 1]_vars

\* C4 amended: a create call that repeats a recorded create inside the
\* 2-minute window issues no remote insert and is answered with the recorded
\* result; one that arrives after the window has expired is passed to the
\* gateway, which issues a new remote insert only if it holds no entry for the
\* appointment or the entry is older than 5 minutes, and otherwise issues none
\* (a completed entry's event identifier answers the call).
C4_NewCreateAfterGatewayExpiry ==
  [][\A c \in Conns, id \in ToolCallIds :
       (CreateCall(c, id) /\ RecentOf(c) # NoEntry) =>
          IF clock - RecentOf(c).timestamp < appointmentDedupeWindowMs
          THEN /\ insertLog' = insertLog
               /\ processedToolCalls'[c][id] = RecentOf(c).result
          ELSE IF \/ CachedFor(c).status = "none"
                  \/ clock - CachedFor(c).createdAt > IDEMPOTENCY_TTL_MS
          THEN /\ Len(insertLog') = Len(insertLog) + 1
               /\ insertLog'[Len(insertLog')].at = clock
          ELSE /\ insertLog' = insertLog
               /\ CachedFor(c).status = "done" /\ CachedFor(c).eventId # 0 =>
                    /\ processedToolCalls'[c][id].created
                    /\ processedToolCalls'[c][id].eventId = CachedFor(c).eventId]_vars

\* C4 witness: three identical creates, the second inside the window and the
\* third after it, were all answered with the one event the single remote
\* insert made.
C4_Witness ==
  /\ Len(insertLog) = 1
  /\ \A id \in {"t1", "t2", "t3"} :
       /\ processedToolCalls["w1"][id].created
       /\ processedToolCalls["w1"][id].eventId = 1
  /\ dispatchCount["w1"]["t1"] + dispatchCount["w1"]["t2"] + dispatchCount["w1"]["t3"] = 2
  /\ RecentOf("w1").timestamp >= appointmentDedupeWindowMs

\* callSummaryState.appointmentBooked of connection c
Booked(c) == callSummaryState[c].appointmentBooked

NoIdReturned(c, id) ==
  /\ microtasks # <<>>
  /\ Head(microtasks).c = c
  /\ Head(microtasks).toolCallId = id
  /\ Head(microtasks).outcome = "noid"

\* A create call reaches the gateway and the gateway answers at once from an
\* entry that holds no event identifier.
NoIdFromCache(c, id) ==
  /\ CreateCall(c, id)
  /\ ~processEnv.BOOKING_DRY_RUN
  /\ processEnv.GOOGLE_CALENDAR_ID
  /\ ~WithinDedupeWindow(RecentOf(c), clock)
  /\ CachedFor(c).status # "none"
  /\ CachedFor(c).eventId = 0
  /\ inflightPromises[<<buildIdempotencySource(c), ToISOString("rA")>>] = NoPromise

StreamStart(c) == \E p \in scope.starts : Start(c, p)

\* A booking attempt begins on connection c: a create call with a complete
\* payload arrives under an identifier that is neither cached nor in flight.
AttemptBegins(c) ==
  \E id \in scope.ids, raw \in scope.isos :
    /\ ~IsProcessed(Session(c), id)
    /\ ~IsInflight(Session(c), id)
    /\ HandleToolCall(c, id, "booking_create_appointment", "valid", raw)

\* The step records a create result on connection c: lines 702-709 after
\* createAppointment returned, or lines 684-686 on a dedupe hit.
CreateResultRecorded(c) ==
  \E id \in scope.ids :
    /\ processedToolCalls[c][id] = NoResult
    /\ processedToolCalls'[c][id].kind = "create"
    /\ lastBookingCreateResult'[c] = processedToolCalls'[c][id]
    /\ lastBookingCreateCallId'[c] = id

\* The step resets the correction latch of connection c.
LatchReset(c) == bookingCorrectionSent[c] /\ ~bookingCorrectionSent'[c]

C7_CorrectionForUnconfirmedAttempt ==
  [][\A c \in Conns :
       ( /\ TextDone(c)
         /\ mode[c] = "receptionist"
         /\ bookingClaimed(assistantBuffer[c])
         /\ obs.lastAttempt[c].outcome \in {"unconfirmed", "error"}
         /\ obs.correctionsSinceAttempt[c] = 0
         /\ IsOpen(openaiWs[c]) )
       => obs'.correctionsSinceAttempt[c] = 1]_vars

\* The last create result of connection c is an unconfirmed one (dry run),
\* a finished turn has since claimed a booking, and the AI connection is open.
ClaimedAfterUnconfirmed(c) ==
  /\ IsOpen(openaiWs[c])
  /\ lastBookingCreateResult[c].kind = "create"
  /\ ~lastBookingCreateResult[c].created
  /\ obs.claimsSinceResult[c] >= 1

\* C8 as stated: from an unconfirmed create result to the end of a turn that
\* claims the booking the AI is sent exactly one instruction that the booking
\* is not finalized.
C8_OneInstruction ==
  \A c \in Conns : ClaimedAfterUnconfirmed(c) => obs.instructionsSinceResult[c] = 1

\* C8 amended: from an unconfirmed create result to the end of a turn that
\* claims the booking the AI is sent exactly one corrective instruction, and
\* before it, with the tool result, the failure notice: two instructions when
\* createAppointment returned the result, the corrective one alone when the
\* result was repeated from the session's dedupe map.
C8_NoticeThenOneCorrection ==
  \A c \in Conns :
    ClaimedAfterUnconfirmed(c) =>
      /\ obs.correctionsSinceReset[c] = 1
      /\ obs.instructionsSinceResult[c] =
           IF dispatchCount[c][lastBookingCreateCallId[c]] = 1 THEN 2 ELSE 1

\* C8 witness: a dry-run create was answered, a turn claimed the booking, and
\* the AI has been sent the notice and the correction.
C8_Witness ==
  /\ ClaimedAfterUnconfirmed("w1")
  /\ lastBookingCreateResult["w1"].dryRun
  /\ dispatchCount["w1"][lastBookingCreateCallId["w1"]] = 1
  /\ obs.instructionsSinceResult["w1"] = 2
  /\ aiLog["w1"].failure = 2

\* C9: for every call identifier at most one run of the post-call summary
\* attempts to send in the lifetime of the process, however many stream-stops
\* arrive for the call and whether or not an earlier run's send has settled.
C9_OneSendAttemptPerCall ==
  \A sid \in CallSids : obs.smsAttempts[sid] <= 1

\* C10: at most one AI connection is ever created for a session, whatever
\* transport events arrive (repeated stream-starts, stream-start after
\* stream-stop or after the socket closed), and only a stream-start creates it.
C10_OneAiConnection ==
  [][\A c \in Conns :
       /\ obs'.aiConnections[c] <= 1
       /\ obs'.aiConnections[c] # obs.aiConnections[c] => StreamStart(c)]_vars

\* C10 witness: the one AI connection was opened and greeted, the call was
\* stopped, and a later stream-start found the closed socket and only queued
\* its greeting.
C10_Witness ==
  /\ obs.aiConnections["w1"] = 1
  /\ aiLog["w1"].greeting >= 1
  /\ openaiWs["w1"] \in {"CLOSING", "CLOSED"}
  /\ pendingGreeting["w1"]

\* The payloads of a log of arrivals, in arrival order.
Payloads(log) == [i \in 1..Len(log) |-> log[i].payload]

\* A media frame that carried audio and arrived while the AI socket was open.
ArrivedWhileOpen(f) == f.payload # NULL /\ f.ai = "OPEN"

\* C11: at every moment the audio payloads sent to the AI connection are
\* exactly the payloads, unchanged and in arrival order, of the transport's
\* audio frames that arrived while the AI connection was open; a frame that
\* arrived before (or after) is dropped and never sent later.
C11_AudioToAiIsFramesWhileOpen ==
  \A c \in Conns :
    obs.aiAudio[c] = Payloads(SelectSeq(obs.frames[c], ArrivedWhileOpen))

\* C11 witness: a frame that arrived while the AI socket was connecting was
\* dropped, the two that followed once it was open were sent in their order,
\* and nothing was sent for the first afterwards.
C11_Witness ==
  /\ Len(obs.frames["w1"]) = 3
  /\ obs.frames["w1"][1] = [payload |-> "p1", ai |-> "CONNECTING"]
  /\ obs.frames["w1"][2] = [payload |-> "p2", ai |-> "OPEN"]
  /\ obs.frames["w1"][3] = [payload |-> "p1", ai |-> "OPEN"]
  /\ obs.aiAudio["w1"] = <<"p2", "p1">>
  /\ openaiWs["w1"] = "CLOSING"

\* The messages sent to the transport for a log of audio deltas: each tagged
\* with the stream identifier known when it arrived.
Tagged(log) ==
  [i \in 1..Len(log) |-> [streamSid |-> log[i].streamSid, payload |-> log[i].payload]]

\* An audio delta that arrived while the stream identifier was known.
StreamKnown(d) == d.streamSid # NULL

\* An audio delta that arrived while the stream identifier was known and the
\* transport's socket was open.
StreamKnownAndOpen(d) == d.streamSid # NULL /\ d.twilio = "OPEN"

\* C12 as stated: the messages sent to the transport are exactly the audio
\* deltas that arrived while the stream identifier was known, each with its
\* payload unchanged and tagged with that identifier, in arrival order; a
\* delta that arrived while it was unknown is never forwarded.
C12_EveryDeltaOfKnownStreamForwarded ==
  \A c \in Conns : obs.twilioAudio[c] = Tagged(SelectSeq(obs.deltas[c], StreamKnown))

\* C12 amended: the messages sent to the transport are exactly the audio
\* deltas that arrived while the stream identifier was known and the
\* transport's socket was open, each with its payload unchanged and tagged
\* with the identifier known at its arrival, in arrival order; every other
\* delta is dropped and never forwarded later.
C12_DeltaForwardedWhileTransportOpen ==
  \A c \in Conns :
    obs.twilioAudio[c] = Tagged(SelectSeq(obs.deltas[c], StreamKnownAndOpen))

\* C12 witness: a delta that arrived before the stream identifier was known
\* was dropped, the next was forwarded under MZ1, and after a stream-start
\* for MZ2 the third was forwarded under MZ2.
C12_Witness ==
  /\ Len(obs.deltas["w1"]) = 3
  /\ obs.deltas["w1"][1].streamSid = NULL
  /\ obs.twilioAudio["w1"] = <<[streamSid |-> "MZ1", payload |-> "p1"],
                               [streamSid |-> "MZ2", payload |-> "p2"]>>

\* A session exists on connection c: a stream-start has created its AI socket.
SessionExists(c) == openaiWs[c] # NULL

\* The connection of one of the two peers of c has closed or failed.
PeerClosed(c) == twilioWs[c] = "CLOSED" \/ openaiWs[c] = "CLOSED"

\* C13: once the connection of either peer of a session has closed or failed,
\* the session is finalized as it is by a stream-stop: the finalizing steps of
\* the stop handler (commit of the input audio, bookkeeping, the post-call
\* notification) have run and the AI connection is closed or closing.
C13_FinalizedWhenPeerCloses ==
  \A c \in Conns :
    SessionExists(c) /\ PeerClosed(c) =>
      /\ obs.finalized[c]
      /\ openaiWs[c] \in {"CLOSING", "CLOSED"}

\* C14: in every step of a session that a stream-start has begun, whatever the
\* transport or the AI sends, the mode keeps its value, and the instruction
\* set of the AI connection is the one of the session's mode.
C14_ModeFixedAndInstructionsMatch ==
  [][\A c \in Conns :
       SessionExists(c) =>
         /\ mode'[c] = mode[c]
         /\ obs'.instructions[c] = InstructionsFor(mode'[c])]_vars

\* The codes a tool-call reply's error object may carry.
ToolErrorCodes ==
  {"invalid_arguments", "unknown_tool", "booking_not_configured", "booking_error"}

\* A reply is a success result or {error: {code, message}} with a listed code.
WellFormedReply(output) ==
  \/ output.kind \in {"create", "availability", "find", "update", "cancel"}
  \/ output.kind = "error" /\ output.code \in ToolErrorCodes

\* The run of handleToolCall for id on c is suspended at an await.
Suspended(c, id) == toolTask[c][id].stage # "none"

\* C15: every tool-call reply sent to the AI (the last one sent and every one
\* kept for replay) is a success result or an {error: {code, message}} object
\* with one of the four codes, and no run of handleToolCall is ended by an
\* exception: an identifier is in flight only while its run is suspended at an
\* await, and a run that has ended has left a reply.
C15_RepliesTypedNothingEscapes ==
  \A c \in Conns :
    /\ obs.lastToolOutput[c] # <<>> => WellFormedReply(obs.lastToolOutput[c][2])
    /\ \A id \in ToolCallIds :
         /\ IsProcessed(Session(c), id) => WellFormedReply(processedToolCalls[c][id])
         /\ IsInflight(Session(c), id) => Suspended(c, id)
         /\ dispatchCount[c][id] > 0 /\ ~Suspended(c, id) => IsProcessed(Session(c), id)

\* C15 witness: the booking operations invoked for t1 and for t2 both failed,
\* one for missing or rejected credentials and one otherwise, and both runs
\* ended with a typed error reply, the second being the last sent to the AI.
C15_Witness ==
  /\ dispatchCount["w1"]["t1"] = 1
  /\ dispatchCount["w1"]["t2"] = 1
  /\ processedToolCalls["w1"]["t1"] = ErrorOutput("booking_not_configured")
  /\ processedToolCalls["w1"]["t2"] = ErrorOutput("booking_error")
  /\ obs.lastToolOutput["w1"] = <<"t2", ErrorOutput("booking_error")>>
  /\ inflightToolCalls["w1"] = {}

\* A create call for "rA" on connection c that the session does not answer
\* itself: createAppointment passes it to GoogleCalendarAdapter.createEvent.
GatewayCall(c, id) ==
  /\ CreateCall(c, id)
  /\ ~WithinDedupeWindow(RecentOf(c), clock)
  /\ ~processEnv.BOOKING_DRY_RUN
  /\ processEnv.GOOGLE_CALENDAR_ID

\* The gateway holds a completed entry for the key of c that is within its
\* time-to-live.
CompletedWithinTtl(c) ==
  /\ CachedFor(c).status = "done"
  /\ clock - CachedFor(c).createdAt <= IDEMPOTENCY_TTL_MS

InFlightFor(c) ==
  {owner \in Conns \X ToolCallIds :
     /\ toolTask[owner[1]][owner[2]].stage = "insert"
     /\ toolTask[owner[1]][owner[2]].key = <<buildIdempotencySource(c), "A">>}

\* After the step, the call (c, id) is suspended on the operation of owner.
AwaitsOperationOf(c, id, owner) ==
  /\ toolTask'[c][id].stage = "await"
  /\ toolTask'[owner[1]][owner[2]].stage = "insert"
  /\ \E i \in DOMAIN toolTask'[owner[1]][owner[2]].awaiters :
       toolTask'[owner[1]][owner[2]].awaiters[i] = <<c, id>>

\* What a create call is answered with when the operation it waited for ended
\* as m says: the event, or the typed error of the failure.
OutcomeReply(m) ==
  IF m.outcome = "ok" THEN CreateOutput(TRUE, FALSE, m.eventId, "A")
  ELSE ErrorOutput(ErrorCode(m.outcome))

\* The remote insert of owner is answered for good in this step.
Settles(owner) ==
  /\ toolTask[owner[1]][owner[2]].stage = "insert"
  /\ toolTask'[owner[1]][owner[2]].stage = "settled"

\* The calls that a settled operation has made ready to continue.
Woken(queue) == {<<queue[i].c, queue[i].toolCallId>> : i \in DOMAIN queue}

\* One settled operation woke every call in the queue: one outcome for all.
OneOutcome(queue) ==
  \A i, j \in DOMAIN queue :
    queue[i].outcome = queue[j].outcome /\ queue[i].eventId = queue[j].eventId

\* What C17 says of one step, for the calls that arrive while an earlier
\* createEvent for their key is in flight and `proviso` holds.
JoinsInFlight(proviso) ==
  /\ \A c \in Conns, id \in ToolCallIds :
       (GatewayCall(c, id) /\ InFlightFor(c) # {} /\ proviso) =>
          /\ insertLog' = insertLog
          /\ \E owner \in InFlightFor(c) : AwaitsOperationOf(c, id, owner)
  /\ \A owner \in Conns \X ToolCallIds :
       Settles(owner) =>
          /\ Woken(microtasks') =
               {owner} \cup {toolTask[owner[1]][owner[2]].awaiters[i] :
                               i \in DOMAIN toolTask[owner[1]][owner[2]].awaiters}
          /\ OneOutcome(microtasks')
  /\ (microtasks # <<>> /\ microtasks' = Tail(microtasks)) =>
       LET m == Head(microtasks)
       IN  processedToolCalls'[m.c][m.toolCallId] = OutcomeReply(m)

\* No createEvent call has waited for its remote insert for more than the
\* gateway's time-to-live (pruneIdempotencyCache then drops its in-flight entry).
NoneOverdue == ~obs.overdue

\* C17 as stated: a createEvent call that arrives while an earlier one for
\* the same key is in flight issues no remote insert and awaits the earlier
\* operation, and when that operation ends every call that waited for it ends
\* with the outcome of the call that started it.
C17_JoinsWhateverInFlight == [][JoinsInFlight(TRUE)]_vars

\* C17 amended: as long as no createEvent call has been in flight for more
\* than 5 minutes, a createEvent call that arrives while an earlier one for
\* the same key is in flight issues no remote insert and awaits the earlier
\* operation, and when that operation ends every call that waited for it ends
\* with the outcome of the call that started it.
C17_JoinsInFlightWithinTtl == [][JoinsInFlight(NoneOverdue)]_vars

\* C17 witness: t2 and t3 arrived while t1's insert was outstanding, a single
\* insert was issued, it failed, and all three calls ended with the same typed
\* error.
C17_Witness ==
  /\ Len(insertLog) = 1
  /\ insertLog[1].status = "failed"
  /\ \A id \in {"t1", "t2", "t3"} :
       /\ dispatchCount["w1"][id] = 1
       /\ processedToolCalls["w1"][id] = ErrorOutput("booking_error")

\* The createEvent call made for (c, id) in this step marks its key in flight
\* and then fails in buildOAuthClient.
MarksAndThrows(c, id) ==
  /\ GatewayCall(c, id)
  /\ ~AnswersFromCache(pruneIdempotencyCache(idempotencyCache, clock)
                         [<<buildIdempotencySource(c), "A">>])
  /\ ~processEnv.GOOGLE_OAUTH

\* The createEvent call of (c, id), which marked its key in flight, fails in
\* this step because its remote insert failed for good.
InsertFails(c, id) ==
  /\ Settles(<<c, id>>)
  /\ insertLog'[toolTask[c][id].logIx].status = "failed"

\* C18: in every step in which a createEvent call that marked its key in
\* flight ends in failure, the key is absent from the idempotency cache
\* afterwards (so that the next call for the key is not answered from it).
C18_FailedCreateEvictsKey ==
  [][\A c \in Conns, id \in ToolCallIds :
       /\ MarksAndThrows(c, id) =>
            idempotencyCache'[<<buildIdempotencySource(c), "A">>] = NoCache
       /\ InsertFails(c, id) =>
            idempotencyCache'[toolTask[c][id].key] = NoCache]_vars

\* The number of times withCalendarRetry has invoked the remote insert for the
\* createEvent call suspended in task, the outstanding invocation included.
Invocations(task) == task.attempt + 1

\* The remote calendar is being asked for the insert of (c, id).
InsertOutstanding(c, id) == toolTask[c][id].stage = "insert"

\* The answer is a rate-limit error: HTTP 429, or HTTP 403 with a rate-limit
\* reason.
RateLimitAnswer(outcome) == outcome \in {"rate", "rate403"}

\* What C19 says of the step in which the remote answers the outstanding
\* invocation of (c, id) with outcome.
RetryStep(c, id, outcome) ==
  LET task == toolTask[c][id]
  IN  /\ Invocations(task) <= 4
      /\ IF Len(insertLog') > Len(insertLog)
         THEN \* a further attempt: only after a rate-limit error
              /\ RateLimitAnswer(outcome)
              /\ Invocations(toolTask'[c][id]) = Invocations(task) + 1
              /\ Invocations(toolTask'[c][id]) <= 4
              /\ InsertOutstanding(c, id)'
         ELSE \* the outcome: this answer, with no attempt after it
              /\ ~InsertOutstanding(c, id)'
              /\ Head(microtasks').outcome = outcome
              /\ \/ outcome \in {"ok", "noid"}
                 \/ ~RateLimitAnswer(outcome)
                 \/ Invocations(task) = 4

\* C19: withCalendarRetry invokes the wrapped operation at most 4 times, makes
\* a further attempt only after a rate-limit error (429, or 403 with a
\* rate-limit reason), ends with the first success, else with the first error
\* that is no rate limit, else with the error of the 4th attempt, and always
\* terminates: an outstanding insert is settled in the end.
C19_BoundedRetry ==
  /\ [][\A c \in Conns, id \in ToolCallIds, outcome \in InsertOutcomes :
          InsertResponse(c, id, outcome) => RetryStep(c, id, outcome)]_vars
  /\ \A c \in Conns, id \in ToolCallIds :
       InsertOutstanding(c, id) ~> ~InsertOutstanding(c, id)

\* C19 witness: the insert of t1 was answered with a rate limit four times,
\* by 429 and by 403 alike; the fourth error ended the call.
C19_Witness ==
  /\ Len(insertLog) = 4
  /\ \A i \in 1..4 : insertLog[i].by = <<"w1", "t1">> /\ insertLog[i].status = "failed"
  /\ processedToolCalls["w1"]["t1"] = ErrorOutput("booking_error")
  /\ dispatchCount["w1"]["t2"] = 0

\* C20: a rate-limit answer to the remote request of any gateway operation
\* behind a tool call, a read (getAvailability, listEvents) as much as a
\* mutation (updateEvent, cancelEvent), is followed by another request as long
\* as fewer than 4 have been made, and ends the operation at the 4th.
C20_ReadsRetriedLikeMutations ==
  [][\A c \in Conns, id \in ToolCallIds, outcome \in InsertOutcomes :
       OpRateLimited(c, id, outcome) =>
          IF Invocations(toolTask[c][id]) < 4
          THEN /\ toolTask'[c][id].stage = "op"
               /\ Invocations(toolTask'[c][id]) = Invocations(toolTask[c][id]) + 1
          ELSE toolTask'[c][id] = NoTask]_vars

\* --- the Availability Resolver

\* findAvailableSlots has returned for an input without an exact-time preference
ScannedWithoutExactTime ==
  finder.called /\ finder.input.timePreference.type # "specific"

SlotsReturned == {finder.slots[i] : i \in DOMAIN finder.slots}

\* C21: for every input whose time preference is morning, afternoon or any,
\* findAvailableSlots returns at most 2 slots, whatever the number of days in
\* the window and whatever the busy intervals.
C21_AtMostTwoSlots == ScannedWithoutExactTime => Len(finder.slots) <= 2

\* a window of more than one day whose two slots lie on different days, the
\* first day offering one free slot only
C21_Witness ==
  /\ ScannedWithoutExactTime
  /\ Len(finder.slots) = 2
  /\ StartOfDay(finder.slots[1]) # StartOfDay(finder.slots[2])
  /\ finder.input.busyIntervals # {}

\* slot `start` keeps the buffer's distance from busy interval B
ClearOf(start, B) ==
  \/ start + finder.input.durationMinutes <= B.start - finder.input.bufferMinutes
  \/ start >= B.end + finder.input.bufferMinutes

\* C22: every slot findAvailableSlots returns either ends at or before
\* B.start minus the buffer or starts at or after B.end plus the buffer, for
\* every busy interval B of the input.
C22_SlotsKeepBuffer ==
  finder.called =>
    \A start \in SlotsReturned : \A B \in finder.input.busyIntervals : ClearOf(start, B)

\* a returned slot that starts exactly the buffer after a busy interval's end
C22_Witness ==
  /\ finder.called
  /\ finder.input.bufferMinutes > 0
  /\ \E start \in SlotsReturned : \E B \in finder.input.busyIntervals :
        start = B.end + finder.input.bufferMinutes

\* The scenario of C23: a one-day window 9:00-17:00, duration 30, buffer 10,
\* one busy interval 10:00-10:30 (any time preference).
BufferScenario ==
  /\ finder.called
  /\ finder.input.windowStart = At(0, 9, 0)
  /\ finder.input.windowEnd = At(0, 17, 0)
  /\ finder.input.durationMinutes = 30
  /\ finder.input.bufferMinutes = 10
  /\ finder.input.busyIntervals = {[start |-> At(0, 10, 0), end |-> At(0, 10, 30)]}

NoPreference == finder.input.timePreference.type = "any"

\* C23 as stated: in the scenario no 9:50 slot is returned, and the first two
\* slots returned are 9:00 and a slot at 10:40 or later.
C23_SecondSlotAfterBusy ==
  (BufferScenario /\ NoPreference) =>
    /\ At(0, 9, 50) \notin SlotsReturned
    /\ Len(finder.slots) >= 2
    /\ finder.slots[1] = At(0, 9, 0)
    /\ finder.slots[2] >= At(0, 10, 40)

\* C23 as amended: in the scenario no 9:50 slot is returned, under any time
\* preference, and without a preference the slots returned are 9:00 and 9:15,
\* the first two steps of the 15-minute scan (9:15 ends at 9:45, before the
\* busy interval's buffer begins at 9:50).
C23_FirstTwoScanSteps ==
  BufferScenario =>
    /\ At(0, 9, 50) \notin SlotsReturned
    /\ NoPreference => finder.slots = <<At(0, 9, 0), At(0, 9, 15)>>

C23_Witness == BufferScenario /\ NoPreference /\ Len(finder.slots) = 2

\* --- the coach calls

\* The users whose block a status callback has reported, and who have not
\* signed up again since.
ReportedBlocked == coach.blocked

\* This step places a scheduler call: processDueUsers logs a new call.
PlacesCall == Len(coach'.callLogs) > Len(coach.callLogs)
CalledUser == coach'.callLogs[Len(coach'.callLogs)].user_id

Indicator(b) == IF b THEN 1 ELSE 0
Clamp(lo, hi, x) == IF x < lo THEN lo ELSE IF x > hi THEN hi ELSE x

\* the score and the level as C25 states them
RawScore(m) ==
  20 * Indicator(m.spanishWithoutEnglish >= 1) + 20 * Indicator(m.spanishAnswers >= 2)
    - 10 * m.simplifications
ClaimedScore(m) == Clamp(0, 100, RawScore(m))
ClaimedLevel(score) ==
  CASE score <= 25 -> "A0" [] score > 25 /\ score <= 50 -> "A1"
    [] score > 50 /\ score <= 75 -> "A2" [] OTHER -> "B1"

\* C25: at stream-stop in coaching mode the score written to the call log is
\* clamp(0, 100, 20*[spanishWithoutEnglish >= 1] + 20*[spanishAnswers >= 2]
\* - 10*simplifications) of the counters at that moment, and the level
\* written is A0 up to 25, A1 up to 50, A2 up to 75, B1 above.
C25_ScoreAndLevelWritten ==
  [][\A c \in Conns :
       obs'.coachLog[c] # obs.coachLog[c] =>
         /\ obs'.coachLog[c][1].score = ClaimedScore(metrics[c])
         /\ obs'.coachLog[c][1].level = ClaimedLevel(obs'.coachLog[c][1].score)]_vars

\* a score that the lower clamp raised to 0 has been written
C25_Witness ==
  \E c \in Conns :
    /\ obs.coachLog[c] # <<>>
    /\ RawScore(obs.coachLog[c][1].metrics) < 0
    /\ obs.coachLog[c][1].score = 0
    /\ obs.coachLog[c][1].level = "A0"

\* --- the greeting

\* the AI socket of connection c opens in this step
Opens(c) == openaiWs[c] = "CONNECTING" /\ openaiWs'[c] = "OPEN"

GreetingsSent(c) == aiLog[c].greeting

\* C26: a greeting requested while the AI socket is not yet open is sent
\* exactly once, in the step in which the socket opens, and pendingGreeting is
\* false from then; no greeting is sent on a socket that is not open; however
\* many stream-starts arrived while connecting, one greeting is sent on open.
C26_PendingGreetingSentOnceOnOpen ==
  [][\A c \in Conns :
       /\ Opens(c) =>
            /\ pendingGreeting'[c] = FALSE
            /\ aiLog'[c].greeting = GreetingsSent(c) + Indicator(pendingGreeting[c])
       /\ aiLog'[c].greeting # GreetingsSent(c) =>
            /\ openaiWs'[c] = "OPEN"
            /\ aiLog'[c].greeting = GreetingsSent(c) + 1
       /\ (pendingGreeting[c] /\ ~pendingGreeting'[c]) => Opens(c)]_vars

\* the socket has opened after two or more stream-starts arrived while it was
\* connecting, and one greeting has been sent
C26_Witness ==
  \E c \in Conns :
    /\ obs.startsWhileConnecting[c] >= 2
    /\ openaiWs[c] = "OPEN"
    /\ ~pendingGreeting[c]
    /\ GreetingsSent(c) = 1

\* The identifier is marked in flight on its connection.
InFlight(c, id) == id \in inflightToolCalls[c]

\* A result is cached for the identifier on its connection.
Stored(c, id) == processedToolCalls[c][id] # NoResult

\* No handleToolCall is suspended on a Booking Operation and no continuation
\* is waiting to run.
Quiescent ==
  /\ microtasks = <<>>
  /\ \A c \in Conns, id \in ToolCallIds : toolTask[c][id] = NoTask

\* C27: a tool call marked in flight ends, on every path (success, argument
\* error, unknown tool, booking error, other exception), with its marker
\* cleared and a result cached, provided the Booking Operation terminates; a
\* handler that returns without awaiting has done both already, and in no
\* quiescent state is an identifier in flight without a cached result.
C27_InFlightEndsCached ==
  /\ \A c \in Conns, id \in ToolCallIds :
       InFlight(c, id) ~> (~InFlight(c, id) /\ Stored(c, id))
  /\ [][\A c \in Conns, id \in ToolCallIds :
          \A call \in ToolCalls(c, id) :
            (HandleToolCall(c, id, call[1], call[2], call[3])
               /\ ~InFlight(c, id) /\ ~Stored(c, id))
            => \/ ~InFlight(c, id)' /\ Stored(c, id)'
               \/ InFlight(c, id)' /\ toolTask'[c][id] # NoTask]_vars
  /\ [](Quiescent => \A c \in Conns, id \in ToolCallIds :
                       InFlight(c, id) => Stored(c, id))

\* C27 witness: both identifiers went through a Booking Operation, one ended
\* with a result and one with an error, and neither is in flight any more.
C27_Witness ==
  /\ Quiescent
  /\ \A id \in {"t1", "t2"} :
       dispatchCount["w1"][id] >= 1 /\ ~InFlight("w1", id) /\ Stored("w1", id)
  /\ processedToolCalls["w1"]["t1"].kind = "error"
  /\ processedToolCalls["w1"]["t2"].kind # "error"

\* every variable but the observation record
ProgramVars == <<procVars, connVars, taskVars, insertLog, dispatchCount, aiLog>>

\* The replies sent on the AI socket for the identifier since it was last
\* marked in flight.
RepliesOfFlight(c, id) == obs.flightReplies[c][id]

\* C28: a tool-call event whose identifier is in inflightToolCalls is dropped:
\* no Booking Operation is invoked, nothing is sent on the AI socket (no filler,
\* no reply) and no variable of the session or the process changes; while the
\* identifier is in flight no reply for it is sent, and the step of the running
\* dispatch that clears the marker sends the one reply (on an open AI socket).
C28_InFlightDuplicateDropped ==
  /\ [][\A c \in Conns, id \in ToolCallIds :
          \A call \in ToolCalls(c, id) :
            (HandleToolCall(c, id, call[1], call[2], call[3]) /\ InFlight(c, id))
            => UNCHANGED ProgramVars]_vars
  /\ [](\A c \in Conns, id \in ToolCallIds :
          InFlight(c, id) => RepliesOfFlight(c, id) = 0)
  /\ [][\A c \in Conns, id \in ToolCallIds :
          (InFlight(c, id) /\ ~InFlight(c, id)')
          => RepliesOfFlight(c, id)' = IF IsOpen(openaiWs[c]) THEN 1 ELSE 0]_vars

\* C28 witness: while t1 was in flight its event was delivered again, twice;
\* the running dispatch has ended and the AI got one reply for t1.
C28_Witness ==
  /\ obs.duplicates["w1"]["t1"] = 2
  /\ ~InFlight("w1", "t1")
  /\ Stored("w1", "t1")
  /\ RepliesOfFlight("w1", "t1") = 1

\* The arguments of the call cannot be parsed, or lack a required field of the
\* schema of create, update or cancel.
ArgumentsRejected(name, shape) ==
  \/ shape = "unparsable"
  \/ /\ shape \in {"null", "incomplete"}
     /\ name \in {"booking_create_appointment", "update_event", "cancel_event"}

\* C29: a tool call whose arguments fail to parse, or that lacks a required
\* field of create_appointment, update_event or cancel_event, gets the error
\* invalid_arguments, cached and returned; no Booking Operation and no
\* Calendar Gateway call is made, and callSummaryState is unchanged.
C29_InvalidArgumentsNoDownstream ==
  [][\A c \in Conns, id \in ToolCallIds :
       \A call \in ToolCalls(c, id) :
         (/\ HandleToolCall(c, id, call[1], call[2], call[3])
          /\ ~InFlight(c, id) /\ ~Stored(c, id)
          /\ ArgumentsRejected(call[1], call[2]))
         => /\ processedToolCalls'[c][id] = ErrorOutput("invalid_arguments")
            /\ ~InFlight(c, id)'
            /\ IsOpen(openaiWs[c]) =>
                 obs'.lastToolOutput[c] = <<id, ErrorOutput("invalid_arguments")>>
            /\ UNCHANGED <<dispatchCount, toolTask, insertLog, idempotencyCache,
                           inflightPromises, callSummaryState, recentAppointments>>]_vars

\* C29 witness: two calls were rejected for their arguments, the last one
\* answered on the open socket, and nothing was dispatched or requested.
C29_Witness ==
  /\ \A id \in {"t1", "t2"} :
       /\ processedToolCalls["w1"][id] = ErrorOutput("invalid_arguments")
       /\ dispatchCount["w1"][id] = 0
  /\ obs.lastToolOutput["w1"] = <<"t2", ErrorOutput("invalid_arguments")>>
  /\ ~callSummaryState["w1"].appointmentRequested
  /\ insertLog = <<>>

\* C30: every error a Booking Operation (checkAvailability, createAppointment,
\* findAppointment, updateAppointment, cancelAppointment) rejects with, for
\* every input including malformed date strings, is a BookingToolError whose
\* code is booking_not_configured or booking_error; no other error surfaces.
C30_OnlyTypedBookingErrors ==
  \A c \in Conns :
    obs.surfaced[c] # NoError =>
      /\ obs.surfaced[c].kind = "BookingToolError"
      /\ obs.surfaced[c].code \in {"booking_not_configured", "booking_error"}

\* The days of the window, as the midnights that start them.
WindowDays(input) ==
  {day \in {d * MinutesPerDay : d \in SlotDays} :
     StartOfDay(input.windowStart) <= day /\ day <= StartOfDay(input.windowEnd)}

\* The slot of an exact time-of-day preference on a day.
SpecificSlot(input, day) ==
  day + input.timePreference.hour * 60 + input.timePreference.minute

\* The exact-time slot of the day lies in the day's bookable hours and
\* overlaps no busy interval widened by the buffer.
SpecificFreeOn(input, day) ==
  /\ SpecificSlot(input, day) >= DayStart(input, day)
  /\ SpecificSlot(input, day) + input.durationMinutes <= DayEnd(input, day)
  /\ ~isSlotBusy(SpecificSlot(input, day), input.durationMinutes, expandedBusy(input))

\* C31: with an exact time-of-day preference findAvailableSlots returns the
\* slot of the first day of the window on which that slot is free, and nothing
\* else; it returns no slot only if the slot is free on no day of the window.
C31_SpecificReturnsFirstFreeDay ==
  (finder.called /\ finder.input.timePreference.type = "specific") =>
    LET free == {day \in WindowDays(finder.input) : SpecificFreeOn(finder.input, day)}
    IN  IF free = {} THEN finder.slots = <<>>
        ELSE \E first \in free :
               /\ \A day \in free : first <= day
               /\ finder.slots = <<SpecificSlot(finder.input, first)>>

\* stream-stop has closed the AI connection of c (readyState CLOSING or CLOSED).
AiStopped(c) == openaiWs[c] \in {"CLOSING", "CLOSED"}

\* C32: a tool dispatch in flight when stream-stop arrives is not aborted: the
\* stop leaves its suspended handler and its marker as they are, the dispatch
\* runs to completion (the Booking Operation terminating), its result is
\* cached and its marker cleared, and the step that completes it sends nothing
\* to the closed AI connection.
C32_InFlightSurvivesStop ==
  /\ [][\A c \in Conns, id \in ToolCallIds :
          (InFlight(c, id) /\ ~AiStopped(c) /\ AiStopped(c)')
          => InFlight(c, id)' /\ toolTask'[c][id] = toolTask[c][id]]_vars
  /\ \A c \in Conns, id \in ToolCallIds :
       (InFlight(c, id) /\ AiStopped(c)) ~> (~InFlight(c, id) /\ Stored(c, id))
  /\ [][\A c \in Conns, id \in ToolCallIds :
          (InFlight(c, id) /\ AiStopped(c) /\ ~InFlight(c, id)')
          => /\ Stored(c, id)'
             /\ aiLog'[c] = aiLog[c]
             /\ obs'.lastToolOutput[c] = obs.lastToolOutput[c]]_vars

\* C32 witness: t1, the only call, was delivered while the AI connection was
\* open (its filler was sent) and completed after stream-stop had closed it:
\* the event it booked is cached, the marker is cleared, no reply was sent.
C32_Witness ==
  /\ AiStopped("w1")
  /\ aiLog["w1"].filler = 1
  /\ aiLog["w1"].toolOutput = 0
  /\ obs.lastToolOutput["w1"] = <<>>
  /\ ~InFlight("w1", "t1") /\ Stored("w1", "t1")
  /\ processedToolCalls["w1"]["t1"].kind # "error"
  /\ ~InFlight("w1", "t2") /\ ~Stored("w1", "t2")

\* What has been sent to the AI connection of c: the messages counted per
\* kind and the audio appended.
SentToAi(c) == <<aiLog[c], obs.aiAudio[c]>>

\* C33: no message (audio append, greeting, filler, tool output, failure
\* notice, correction, commit) is sent to the AI connection unless it is open
\* at that moment: no send is ever handed to a socket that is not open, a step
\* that sends finds the socket open or opens it, and once stream-stop has
\* closed the AI connection no later event or tool completion sends anything.
C33_SendsOnlyWhenOpen ==
  /\ [](\A c \in Conns : aiLog[c].unopened = 0)
  /\ [][\A c \in Conns :
          SentToAi(c)' # SentToAi(c) => IsOpen(openaiWs[c]) \/ IsOpen(openaiWs[c])']_vars
  /\ [][\A c \in Conns : AiStopped(c) => SentToAi(c)' = SentToAi(c)]_vars

\* C33 witness: the call was stopped with a tool call in flight (its filler
\* was sent, the commit was sent at the stop); afterwards an audio frame
\* arrived and the tool call completed, and neither was sent on.
C33_Witness ==
  /\ AiStopped("w1")
  /\ aiLog["w1"] = [NoAiLog EXCEPT !.greeting = 1, !.filler = 1, !.commit = 1]
  /\ Stored("w1", "t1") /\ ~InFlight("w1", "t1")
  /\ Len(obs.frames["w1"]) = 1 /\ obs.aiAudio["w1"] = <<>>

\* The dispatch of (c, id) ends in this step with an error result.
EndsInError(c, id) ==
  /\ ~Stored(c, id)
  /\ Stored(c, id)'
  /\ processedToolCalls'[c][id].kind = "error"

\* What C34 says a failing create dispatch leaves alone: the last create
\* result, its tool-call identifier, the correction latch and
\* callSummaryState.appointmentBooked; no entry is added to recentAppointments.
BookingStateKept(c) ==
  /\ UNCHANGED <<lastBookingCreateResult[c], lastBookingCreateCallId[c],
                 bookingCorrectionSent[c], callSummaryState[c].appointmentBooked>>
  /\ \A key \in DOMAIN recentAppointments[c] :
       recentAppointments'[c][key] # NoEntry =>
         recentAppointments'[c][key] = recentAppointments[c][key]

\* C34: a create_appointment dispatch that ends in an error, typed or
\* unexpected, adds no entry to recentAppointments and leaves
\* lastBookingCreateResult, lastBookingCreateCallId, the correction latch and
\* callSummaryState.appointmentBooked unchanged, in the step that begins it and
\* in the step that ends it; its dedupe key has no entry afterwards, and a
\* create request under a fresh identifier whose key has no entry is
\* dispatched to the Booking Operation.
C34_FailedCreateLeavesNoTrace ==
  /\ [][\A c \in Conns, id \in ToolCallIds :
          (~InFlight(c, id) /\ InFlight(c, id)') => BookingStateKept(c)]_vars
  /\ [][\A c \in Conns, id \in ToolCallIds :
          EndsInError(c, id) =>
            /\ BookingStateKept(c)
            /\ toolTask[c][id] # NoTask =>
                 recentAppointments'[c][toolTask[c][id].dedupeKey] = NoEntry]_vars
  /\ [][\A c \in Conns, id \in ToolCallIds :
          \A call \in ToolCalls(c, id) :
            (/\ HandleToolCall(c, id, call[1], call[2], call[3])
             /\ ~InFlight(c, id) /\ ~Stored(c, id)
             /\ call[1] = "booking_create_appointment" /\ call[2] = "valid"
             /\ recentAppointments[c][buildAppointmentDedupeKey(c, call[3])] = NoEntry)
            => /\ dispatchCount'[c][id] = dispatchCount[c][id] + 1
               /\ EndsInError(c, id) =>
                    recentAppointments'[c][buildAppointmentDedupeKey(c, call[3])] = NoEntry]_vars

\* C34 witness: the create call t1 failed at the calendar and is not recorded
\* as the last create; the same request under t2 was dispatched and sent to
\* the calendar again.
C34_Witness ==
  /\ processedToolCalls["w1"]["t1"] = ErrorOutput("booking_error")
  /\ dispatchCount["w1"]["t1"] = 1
  /\ dispatchCount["w1"]["t2"] = 1
  /\ Len(insertLog) = 2
  /\ insertLog[1].key = insertLog[2].key
  /\ insertLog[1].status = "failed"
  /\ insertLog[2].by = <<"w1", "t2">>
  /\ lastBookingCreateCallId["w1"] # "t1"

\* The sessions on c and d carry calls with distinct, non-empty identifiers.
DistinctCalls(c, d) ==
  c # d /\ callSid[c] # NULL /\ callSid[d] # NULL /\ callSid[c] # callSid[d]

\* No create request has been dispatched on c yet.
NoRequestYet(c) == \A id \in ToolCallIds : dispatchCount[c][id] = 0

\* The tool result cached for (c, id) reports an event created.
ReportsEvent(c, id) ==
  processedToolCalls[c][id].kind = "create" /\ processedToolCalls[c][id].created

\* C35: create requests of two sessions with distinct, non-empty call
\* identifiers for the same start and end are not deduplicated against each
\* other by the process-wide idempotency cache: the first request of each
\* session issues a remote create of its own, and the event a session's reply
\* reports is one that this session's requests created.
C35_SessionsNotDeduplicated ==
  /\ [][\A c \in Conns, id \in ToolCallIds :
          \A call \in ToolCalls(c, id) :
            (/\ HandleToolCall(c, id, call[1], call[2], call[3])
             /\ ~InFlight(c, id) /\ ~Stored(c, id)
             /\ NoRequestYet(c)
             /\ \A d \in scope.conns \ {c} : callSid[d] # NULL => DistinctCalls(c, d))
            => /\ Len(insertLog') = Len(insertLog) + 1
               /\ insertLog'[Len(insertLog')].by = <<c, id>>]_vars
  /\ [](\A c \in Conns, d \in Conns, id \in ToolCallIds :
          (DistinctCalls(c, d) /\ ReportsEvent(c, id)) =>
            insertLog[processedToolCalls[c][id].eventId].by[1] = c)

\* C35 witness: both sessions, with different call identifiers, asked for the
\* same appointment; each got its own remote create and its own event.
C35_Witness ==
  /\ DistinctCalls("w1", "w2")
  /\ ReportsEvent("w1", "t1") /\ ReportsEvent("w2", "t1")
  /\ processedToolCalls["w1"]["t1"].eventId # processedToolCalls["w2"]["t1"].eventId
  /\ Len(insertLog) = 2
  /\ insertLog[1].by[1] # insertLog[2].by[1]

\* C36: the owner's and the caller's message of one run of the post-call
\* notification are both composed from callSummaryState as it was at the
\* stream-stop that started the run, before the first send is awaited: the
\* run's bodies are the two builders applied to that snapshot, no later step
\* (a tool dispatch completing included) changes them, and the message handed
\* to sendSms for the caller after the owner's send settled is the one
\* composed from the snapshot.
RunComposed(run) ==
  /\ run.ownerBody = buildOwnerSummaryBody(run.summary)
  /\ run.callerBody = buildCallerSummaryBody(run.summary)

C36_SummariesFromOneSnapshot ==
  [][\A c \in Conns :
       /\ Len(smsTask'[c]) > Len(smsTask[c]) =>
            LET run == smsTask'[c][Len(smsTask'[c])]
            IN  /\ run.summary = callSummaryState'[c]
                /\ RunComposed(run)
                /\ obs'.lastSms[c] =
                     [to |-> run.stage,
                      body |-> IF run.stage = "owner" THEN run.ownerBody
                               ELSE run.callerBody]
       /\ Len(smsTask'[c]) >= Len(smsTask[c]) =>
            \A i \in 1..Len(smsTask[c]) :
              /\ smsTask'[c][i].summary = smsTask[c][i].summary
              /\ smsTask'[c][i].ownerBody = smsTask[c][i].ownerBody
              /\ smsTask'[c][i].callerBody = smsTask[c][i].callerBody
              /\ (smsTask[c][i].stage = "owner" /\ smsTask'[c][i].stage = "caller") =>
                   obs'.lastSms[c] =
                     [to |-> "caller",
                      body |-> buildCallerSummaryBody(smsTask[c][i].summary)]
       /\ Len(smsTask'[c]) = Len(smsTask[c]) /\ smsTask'[c] = smsTask[c] =>
            obs'.lastSms[c] = obs.lastSms[c]]_vars

\* the caller's message has been handed over after the owner's send settled,
\* a tool dispatch having changed the summary's outcome in between, and it
\* still carries the outcome of the snapshot
C36_Witness ==
  \E i \in 1..Len(smsTask["w1"]) :
    LET run == smsTask["w1"][i]
    IN  /\ run.stage = "caller"
        /\ processEnv.BUSINESS_OWNER_PHONE
        /\ run.summary.appointmentBooked # callSummaryState["w1"].appointmentBooked
        /\ obs.lastSms["w1"] = [to |-> "caller", body |-> run.callerBody]
        /\ run.callerBody # buildCallerSummaryBody(callSummaryState["w1"])

\* C37: in every reachable state spanishWithoutEnglish <= spanishAnswers and
\* no step lowers one of the four coaching counters; a step taken while the
\* connection is not in spanish_coach mode changes neither the counters nor
\* optedOut, and on a connection that never was in spanish_coach mode they
\* have their initial values (0, 0, 0, 0 and false).
InitialMetrics ==
  [simplifications |-> 0, repeats |-> 0, spanishAnswers |-> 0,
   spanishWithoutEnglish |-> 0]

C37_CountersMonotoneAndCoachOnly ==
  /\ [](\A c \in Conns :
          /\ metrics[c].spanishWithoutEnglish <= metrics[c].spanishAnswers
          /\ ~obs.coached[c] => metrics[c] = InitialMetrics /\ ~optedOut[c])
  /\ [][\A c \in Conns :
          /\ metrics'[c].simplifications >= metrics[c].simplifications
          /\ metrics'[c].repeats >= metrics[c].repeats
          /\ metrics'[c].spanishAnswers >= metrics[c].spanishAnswers
          /\ metrics'[c].spanishWithoutEnglish >= metrics[c].spanishWithoutEnglish
          /\ mode[c] # "spanish_coach" =>
               metrics'[c] = metrics[c] /\ optedOut'[c] = optedOut[c]]_vars

\* a connection that handled text and transcript events as a receptionist
\* call and then, in spanish_coach mode, counted a simplification, a repeat, a
\* Spanish-only answer and a mixed answer
C37_Witness ==
  /\ obs.quietEvents["w1"] >= 2
  /\ mode["w1"] = "spanish_coach"
  /\ metrics["w1"].simplifications > 0
  /\ metrics["w1"].repeats > 0
  /\ 0 < metrics["w1"].spanishWithoutEnglish
  /\ metrics["w1"].spanishWithoutEnglish < metrics["w1"].spanishAnswers

\* C38: whatever the coaching counters are, the score computed at stream-stop
\* is one of 0, 10, 20, 30, 40: so is every score written to the call log, so
\* is computeScore of the counters of every reachable state and of every
\* combination of counters up to MaxScoreCounter; the level written to the
\* call log, and to the user record when there is a user, is A0 or A1.
PossibleScores == {0, 10, 20, 30, 40}
LowestTiers == {"A0", "A1"}
CounterCombinations ==
  [simplifications : 0..MaxScoreCounter, repeats : {0},
   spanishAnswers : 0..MaxScoreCounter, spanishWithoutEnglish : 0..MaxScoreCounter]

C38_ScoreAtMostForty ==
  /\ \A m \in CounterCombinations :
       /\ computeScore(m) \in PossibleScores
       /\ mapScoreToLevel(computeScore(m)) \in LowestTiers
  /\ \A c \in Conns :
       /\ computeScore(metrics[c]) \in PossibleScores
       /\ obs.coachLog[c] # <<>> =>
            /\ obs.coachLog[c][1].score \in PossibleScores
            /\ obs.coachLog[c][1].level \in LowestTiers
            /\ obs.coachLog[c][1].userLevel \in LowestTiers \cup {NULL}

\* the highest score, 40, has been written at a stream-stop, and A1 with it
\* to the user record
C38_Witness ==
  \E c \in Conns :
    /\ obs.coachLog[c] # <<>>
    /\ obs.coachLog[c][1].score = 40
    /\ obs.coachLog[c][1].userLevel = "A1"

\* C39: at most one call of processDueUsers is in progress at any time, a
\* tick that fires while one is in progress changes nothing, and two calls the
\* scheduler placed successfully for the same user are at least
\* MIN_HOURS_BETWEEN_CALLS hours apart.
SchedulerCallsOf(u) == {i \in DOMAIN coach.callLogs : coach.callLogs[i].user_id = u}

C39_OneRunAndTwentyHours ==
  /\ [](/\ coach.active <= 1
        /\ coach.isRunning <=> coach.active = 1
        /\ \A u \in CoachUserIds : \A i, j \in SchedulerCallsOf(u) :
             i < j => coach.callLogs[j].created_at - coach.callLogs[i].created_at
                        >= MIN_HOURS_BETWEEN_CALLS * 60)
  /\ [][coach.isRunning /\ coach'.now = coach.now /\ PlacesCall =>
          /\ coach.run.users # <<>>
          /\ CalledUser = Head(coach.run.users).id]_vars

\* the scheduler has called the same user twice, on two days, and time passed
\* while a run was awaiting a placement
C39_Witness ==
  /\ \E u \in CoachUserIds : Cardinality(SchedulerCallsOf(u)) = 2
  /\ coach.isRunning
  /\ coach.run.nowUtc < coach.now

====
